---- MODULE Spec2Model ----
(***************************************************************************)
(* Verification model of the INGRID mesh generator (jguterl/INGRID):       *)
(*   src/src/geometry.py          Point, Line, Cell, Patch, intersections  *)
(*   src/src/Topologies/SF45.py   SF45 topology assembly and concat_grid   *)
(*   src/src/Root_Finder.py       RootFinder click handler                 *)
(*                                                                         *)
(* The module holds one state machine per component.  Each component has   *)
(* its own variables, initial predicate, next-state relation and           *)
(* specification; the variables of the other components are parked at a    *)
(* fixed value and left unchanged.                                         *)
(*   SpecLine     geometry.Line methods (a chain of method calls)          *)
(*   SpecSeg      geometry.segment_intersect                               *)
(*   SpecSubgrid  geometry.Patch.make_subgrid                              *)
(*   SpecConcat   SF45.concat_grid                                         *)
(*   SpecPatches  SF45.construct_patches and SF45.CheckPatches             *)
(*   SpecGrid     SF45.construct_grid with SF45.AdjustPatch                *)
(*   SpecNpoints  SF45.GetNpoints                                          *)
(*   SpecFlip     the flip step of SF45.concat_grid                        *)
(*   SpecCache    geometry.Line caches under reverse, reverse_copy,        *)
(*                straighten, limiter_split and fluff                      *)
(*   SpecSubgrid2 geometry.Patch.make_subgrid2                             *)
(*   SpecRegrid   repeated calls of SF45.construct_grid                    *)
(*   SpecBoundary SF45.GetBoundaryPoints                                   *)
(*   SpecRoot     Root_Finder.RootFinder                                   *)
(***************************************************************************)
EXTENDS Integers, Sequences, FiniteSets, TLC

VARIABLES
    cur,        \* Line component: the Line object the next method is called on
    curId,      \* Line component: identity of that object
    nObjs,      \* Line component: number of Line objects allocated so far
    ncalls,     \* Line component: number of method calls made
    hist,       \* Line component: records of the last two calls
    segIn,      \* segment_intersect: the two argument Lines (coordinates)
    segOut,     \* segment_intersect: outcome of the call
    sg,         \* make_subgrid: locals of the call and the patch's cells
    cg,         \* concat_grid: the filled patch matrix and the locals of the call
    cp,         \* construct_patches and CheckPatches: locals and self.patches
    gr,         \* construct_grid: settings, arguments and the patches being filled
    gn,         \* GetNpoints: settings, arguments and outcome of the call
    fl,         \* the flip step of concat_grid: a regional array before and after
    lc,         \* Line caches: a Line object under mutating and copying calls
    sg2,        \* make_subgrid2: locals of the call and the patch's cells
    rg,         \* repeated construct_grid calls: cells and CurrentListPatch
    bp,         \* GetBoundaryPoints: the patches, the argument and the result
    rf          \* RootFinder: mode flags, connection id and the canvas handlers

lineVars == <<cur, curId, nObjs, ncalls, hist>>

segVars == <<segIn, segOut>>

topoVars == <<cp, gr, gn, fl>>

extraVars == <<lc, sg2, rg, bp, rf>>

vars == <<cur, curId, nObjs, ncalls, hist, segIn, segOut, sg, cg, cp, gr, gn, fl,
          lc, sg2, rg, bp, rf>>

(***************************************************************************)
(* Bounds of the model.                                                    *)
(***************************************************************************)
NumPts   == 4   \* Point objects available as inputs
MaxLen   == 3   \* longest input Line
MaxCalls == 2   \* longest chain of Line method calls
SegMax   == 1   \* largest coordinate of a segment_intersect argument
MaxNum   == 4   \* largest argument num of make_subgrid
MaxCells == 2   \* most cells of a filled patch in one direction

(***************************************************************************)
(* geometry.Point: an object with two coordinates.  The input points are   *)
(* a pool of NumPts objects; objects 1, 2, 3 sit on the corners of a 3-4-5 *)
(* triangle and every later object repeats the coordinates of an earlier   *)
(* one (two distinct Point objects may hold equal coordinates).            *)
(***************************************************************************)
PointIds == 1..NumPts

PX(i) == IF i % 3 = 1 THEN 0 ELSE 3

PY(i) == IF i % 3 = 0 THEN 4 ELSE 0

SameCoor(a, b) == PX(a) = PX(b) /\ PY(a) = PY(b)

\* np.sqrt on the squared distances of the model's grid (rounded down).
Sqrt(n) == CHOOSE r \in 0..n : r * r <= n /\ (r + 1) * (r + 1) > n

Dist2(a, b) == (PX(b) - PX(a)) * (PX(b) - PX(a)) + (PY(b) - PY(a)) * (PY(b) - PY(a))

(***************************************************************************)
(* geometry.Line                                                           *)
(***************************************************************************)
\* s[::-1]
Rev(s) == [i \in 1..Len(s) |-> s[Len(s) + 1 - i]]

RECURSIVE SumSegments(_, _)
SumSegments(p, n) ==
    IF n <= 0 THEN 0
    ELSE SumSegments(p, n - 1) + Sqrt(Dist2(p[n], p[n + 1]))

\* Mutation of calc_length: the loop stops one segment early.
calc_length_short(p) == SumSegments(p, Len(p) - 2)

\* Line.calc_length: l += sqrt(dx^2 + dy^2) for i in range(len(p) - 1)
calc_length(p) == SumSegments(p, Len(p) - 1)

\* Line.__init__
Line(points) ==
    [p      |-> points,
     xval   |-> [i \in 1..Len(points) |-> PX(points[i])],
     yval   |-> [i \in 1..Len(points) |-> PY(points[i])],
     length |-> calc_length(points)]

(* A method call yields the receiver as the call leaves it (self) and the   *)
(* returned values (ret): either the receiver itself or a new Line object.  *)
RetSelf == [ref |-> "self"]

RetNew(obj) == [ref |-> "new", obj |-> obj]

\* Line.reverse: self.p = self.p[::-1]; return self
reverse(self) ==
    [self |-> [self EXCEPT !.p = Rev(self.p)], ret |-> <<RetSelf>>]

\* Mutation of reverse_copy: the slice misses the first point (p[:0:-1]).
reverse_copy_slice(self) ==
    [self |-> self, ret |-> <<RetNew(Line(Rev(Tail(self.p))))>>]

\* Mutation of reverse_copy: reverses the receiver in place and returns it.
reverse_copy_inplace(self) == reverse(self)

\* Line.reverse_copy: return Line(self.p[::-1])
reverse_copy(self) ==
    [self |-> self, ret |-> <<RetNew(Line(Rev(self.p)))>>]

\* Line.straighten: return Line([self.p[0], self.p[-1]])
straighten(self) ==
    [self |-> self, ret |-> <<RetNew(Line(<<self.p[1], self.p[Len(self.p)]>>))>>]

(***************************************************************************)
(* Line.split(point, add_split_point) is imported by SF45.py from a        *)
(* version of geometry.py that is not part of the sources; it is modelled  *)
(* from the design document: the Line is divided at the sample nearest to  *)
(* point; with add_split_point, a point that is not yet a sample is        *)
(* inserted at the division before dividing.                               *)
(***************************************************************************)
IsSample(p, point) == \E k \in 1..Len(p) : SameCoor(p[k], point)

find_split_index(p, point) ==
    CHOOSE k \in 1..Len(p) :
        /\ \A j \in 1..Len(p) : Dist2(p[k], point) <= Dist2(p[j], point)
        /\ \A j \in 1..(k - 1) : Dist2(p[j], point) > Dist2(p[k], point)

\* Mutation of split: the inserted point is left out of the second Line.
split_open(self, point, add_split_point) ==
    LET p == self.p
        n == Len(p)
        k == find_split_index(p, point)
    IN  IF add_split_point /\ ~IsSample(p, point)
        THEN [self |-> self,
              ret  |-> <<RetNew(Line(SubSeq(p, 1, k - 1) \o <<point>>)),
                         RetNew(Line(SubSeq(p, k, n)))>>]
        ELSE [self |-> self,
              ret  |-> <<RetNew(Line(SubSeq(p, 1, k))),
                         RetNew(Line(SubSeq(p, k, n)))>>]

\* The division of self.p at index k; sample tells whether point is one of
\* the samples already.
split_at(self, point, add_split_point, k, sample) ==
    LET p == self.p
        n == Len(p)
    IN  IF add_split_point /\ ~sample
        THEN [self |-> self,
              ret  |-> <<RetNew(Line(SubSeq(p, 1, k - 1) \o <<point>>)),
                         RetNew(Line(<<point>> \o SubSeq(p, k, n)))>>]
        ELSE [self |-> self,
              ret  |-> <<RetNew(Line(SubSeq(p, 1, k))),
                         RetNew(Line(SubSeq(p, k, n)))>>]

split(self, point, add_split_point) ==
    split_at(self, point, add_split_point,
             find_split_index(self.p, point), IsSample(self.p, point))

(***************************************************************************)
(* Line component: a chain of method calls L.m1().m2()...  Every call is   *)
(* made on the current object; the chain continues on the first returned   *)
(* object.  hist keeps, for the last two calls, the receiver before and    *)
(* after the call and the returned objects with their identities.          *)
(***************************************************************************)
InputLines == UNION {[1..n -> PointIds] : n \in 2..MaxLen}

NewUpTo(r, k) == Cardinality({j \in 1..k : r.ret[j].ref = "new"})

Push(h, e) == IF Len(h) < 2 THEN Append(h, e) ELSE <<h[2], e>>

Call(op, r, point, add) ==
    LET ids  == [k \in 1..Len(r.ret) |->
                    IF r.ret[k].ref = "self" THEN curId ELSE nObjs + NewUpTo(r, k)]
        objs == [k \in 1..Len(r.ret) |->
                    IF r.ret[k].ref = "self" THEN r.self ELSE r.ret[k].obj]
    IN  /\ ncalls < MaxCalls
        /\ cur' = objs[1]
        /\ curId' = ids[1]
        /\ nObjs' = nObjs + NewUpTo(r, Len(r.ret))
        /\ ncalls' = ncalls + 1
        /\ hist' = Push(hist, [op |-> op, self |-> curId, pre |-> cur,
                               post |-> r.self, retIds |-> ids, out |-> objs,
                               pt |-> point, add |-> add])

LineOff ==
    /\ cur = Line(<<>>)
    /\ curId = 0
    /\ nObjs = 0
    /\ ncalls = 0
    /\ hist = <<>>

LineInit ==
    /\ cur \in {Line(s) : s \in InputLines}
    /\ curId = 1
    /\ nObjs = 1
    /\ ncalls = 0
    /\ hist = <<>>

CallReverse ==
    /\ Call("reverse", reverse(cur), 0, FALSE)
    /\ UNCHANGED <<segVars, sg, cg, topoVars, extraVars>>

CallReverseCopy ==
    /\ Call("reverse_copy", reverse_copy(cur), 0, FALSE)
    /\ UNCHANGED <<segVars, sg, cg, topoVars, extraVars>>

CallStraighten ==
    /\ Len(cur.p) >= 1
    /\ Call("straighten", straighten(cur), 0, FALSE)
    /\ UNCHANGED <<segVars, sg, cg, topoVars, extraVars>>

CallSplit ==
    /\ Len(cur.p) >= 1
    /\ \E point \in PointIds, add \in BOOLEAN :
          Call("split", split(cur, point, add), point, add)
    /\ UNCHANGED <<segVars, sg, cg, topoVars, extraVars>>

SegOff ==
    /\ segIn = <<>>
    /\ segOut = [kind |-> "off"]

SubgridOff == sg = [pc |-> "off"]

ConcatOff == cg = [pc |-> "off"]

PatchesOff == cp = [pc |-> "off"]

GridOff == gr = [pc |-> "off"]

NpointsOff == gn = [pc |-> "off"]

FlipOff == fl = [pc |-> "off"]

TopoOff == PatchesOff /\ GridOff /\ NpointsOff /\ FlipOff

CacheOff == lc = [pc |-> "off"]

Subgrid2Off == sg2 = [pc |-> "off"]

RegridOff == rg = [pc |-> "off"]

BoundaryOff == bp = [pc |-> "off"]

RootFinderOff == rf = [pc |-> "off"]

ExtraOff == CacheOff /\ Subgrid2Off /\ RegridOff /\ BoundaryOff /\ RootFinderOff

InitLine == LineInit /\ SegOff /\ SubgridOff /\ ConcatOff /\ TopoOff /\ ExtraOff

NextLine == CallReverse \/ CallReverseCopy \/ CallStraighten \/ CallSplit

SpecLine == InitLine /\ [][NextLine]_vars

(***************************************************************************)
(* Properties of the Line component                                        *)
(***************************************************************************)
Last2 == hist[Len(hist)]

IsCall(e, op) == e.op = op

\* The last two calls are L.reverse_copy().reverse_copy().
DoubleReverseCopy ==
    /\ Len(hist) = 2
    /\ IsCall(hist[1], "reverse_copy")
    /\ IsCall(hist[2], "reverse_copy")
    /\ hist[2].self = hist[1].retIds[1]

\* C1: reverse_copy applied twice to a Line L gives a Line with as many
\* points as L whose i-th point is the i-th Point object of L, for every i.
C1_ReverseCopyTwice ==
    DoubleReverseCopy =>
        LET L  == hist[1].pre
            RR == hist[2].out[1]
        IN  /\ Len(RR.p) = Len(L.p)
            /\ \A i \in 1..Len(L.p) : RR.p[i] = L.p[i]

\* Witness of C1: a double reverse_copy of a Line of three points that is
\* not its own reverse.
C1_Witness ==
    /\ DoubleReverseCopy
    /\ Len(hist[1].pre.p) = 3
    /\ hist[1].pre.p # Rev(hist[1].pre.p)

\* C2: reverse_copy does not change its receiver (same p, xval, yval and
\* length after the call as before) and returns a new Line object that holds
\* the receiver's points in reversed order.
C2_ReverseCopyNonMutating ==
    (Len(hist) >= 1 /\ IsCall(Last2, "reverse_copy")) =>
        /\ Last2.post.p = Last2.pre.p
        /\ Last2.post.xval = Last2.pre.xval
        /\ Last2.post.yval = Last2.pre.yval
        /\ Last2.post.length = Last2.pre.length
        /\ Last2.retIds[1] # Last2.self
        /\ Len(Last2.out[1].p) = Len(Last2.pre.p)
        /\ \A i \in 1..Len(Last2.pre.p) :
              Last2.out[1].p[i] = Last2.pre.p[Len(Last2.pre.p) + 1 - i]

\* Witness of C2: reverse_copy was called on a Line whose reversal differs
\* from it.
C2_Witness ==
    /\ Len(hist) >= 1
    /\ IsCall(Last2, "reverse_copy")
    /\ Last2.pre.p # Rev(Last2.pre.p)
    /\ Last2.out[1].p # Last2.pre.p

Without(seq, point) == SelectSeq(seq, LAMBDA q : q # point)

\* C4: split(point, add_split_point=True) returns two Lines, the first
\* ending and the second starting at the split point, whose samples, put
\* one after the other with the doubled split point taken once, are the
\* samples of L in order (plus the split point when it was not a sample).
C4_SplitReconstructs ==
    (Len(hist) >= 1 /\ IsCall(Last2, "split") /\ Last2.add) =>
        LET L      == Last2.pre.p
            first  == Last2.out[1].p
            second == Last2.out[2].p
            joined == first \o Tail(second)
        IN  /\ Len(first) >= 1
            /\ Len(second) >= 1
            /\ SameCoor(first[Len(first)], Last2.pt)
            /\ SameCoor(second[1], Last2.pt)
            /\ SameCoor(first[Len(first)], second[1])
            /\ IF IsSample(L, Last2.pt)
               THEN joined = L
               ELSE /\ Len(joined) = Len(L) + 1
                    /\ Without(joined, Last2.pt) = L
            /\ Last2.post = Last2.pre

\* Witness of C4: a split of a three-point Line at a point that is not one
\* of its samples and is nearest to an inner sample.
C4_Witness ==
    /\ Len(hist) >= 1
    /\ IsCall(Last2, "split")
    /\ Last2.add
    /\ Len(Last2.pre.p) = 3
    /\ ~IsSample(Last2.pre.p, Last2.pt)
    /\ Len(Last2.out[1].p) >= 2
    /\ Len(Last2.out[2].p) >= 2

(***************************************************************************)
(* geometry.segment_intersect(line1, line2)                                *)
(*                                                                         *)
(* segIn = <<P1, P2, P3, P4>>: line1 holds the points P1, P2 and line2     *)
(* the points P3, P4, each point a pair <<x, y>>.  The outcome is one of   *)
(*   [kind |-> "return", flag, sol]   a returned pair (flag, sol)          *)
(*   [kind |-> "None"]                the function ends without a return   *)
(*   [kind |-> "raise", exc]          an exception leaves the function     *)
(* A solution is kept exact as <<numerator0, numerator1, denominator>>.    *)
(***************************************************************************)
SegCoor == 0..SegMax

SegPoint == SegCoor \X SegCoor

\* 0 <= num/den <= 1
InUnit(num, den) ==
    \/ den > 0 /\ 0 <= num /\ num <= den
    \/ den < 0 /\ den <= num /\ num <= 0

\* np.linalg.solve(M, r) for a 2x2 matrix M = <<<<m00, m01>>, <<m10, m11>>>>
linalg_solve(M, r) ==
    LET det == M[1][1] * M[2][2] - M[1][2] * M[2][1]
    IN  IF det = 0
        THEN [kind |-> "raise", exc |-> "LinAlgError"]
        ELSE [kind |-> "return",
              sol  |-> <<r[1] * M[2][2] - M[1][2] * r[2],
                         M[1][1] * r[2] - M[2][1] * r[1],
                         det>>]

segment_intersect(line1, line2) ==
    LET xa == line1[1][1]
        ya == line1[1][2]
        xb == line2[1][1]
        yb == line2[1][2]
        xc == line1[2][1]
        yc == line1[2][2]
        xd == line2[2][1]
        yd == line2[2][2]
        M   == << <<xb - xa, -xd + xc>>, <<yb - ya, -yd + yc>> >>
        r   == <<xc - xa, yc - ya>>
        sol == linalg_solve(M, r)
    IN  IF sol.kind = "raise"
        THEN sol
        ELSE IF InUnit(sol.sol[1], sol.sol[3]) /\ InUnit(sol.sol[2], sol.sol[3])
             THEN [kind |-> "return", flag |-> TRUE, sol |-> sol.sol]
             ELSE [kind |-> "None"]

\* The arguments: two segments, each with two distinct end points.
SegInit ==
    /\ segIn \in SegPoint \X SegPoint \X SegPoint \X SegPoint
    /\ segIn[1] # segIn[2]
    /\ segIn[3] # segIn[4]
    /\ segOut = [kind |-> "pending"]

CallSegmentIntersect ==
    /\ segOut.kind = "pending"
    /\ segOut' = segment_intersect(<<segIn[1], segIn[2]>>, <<segIn[3], segIn[4]>>)
    /\ UNCHANGED <<segIn, lineVars, sg, cg, topoVars, extraVars>>

InitSeg == LineOff /\ SegInit /\ SubgridOff /\ ConcatOff /\ TopoOff /\ ExtraOff

NextSeg == CallSegmentIntersect

SpecSeg == InitSeg /\ [][NextSeg]_vars

(***************************************************************************)
(* Properties of segment_intersect                                         *)
(***************************************************************************)
SegDone == segOut.kind \in {"return", "None", "raise"}

(* The intersection parameters s, t of the segments P1P2 and P3P4:         *)
(* P1 + s (P2 - P1) = P3 + t (P4 - P3), as <<s num, t num, denominator>>.  *)
TrueParams(P1, P2, P3, P4) ==
    LET d1x == P2[1] - P1[1]
        d1y == P2[2] - P1[2]
        d2x == P4[1] - P3[1]
        d2y == P4[2] - P3[2]
        wx  == P3[1] - P1[1]
        wy  == P3[2] - P1[2]
    IN  <<d2x * wy - wx * d2y, d1x * wy - d1y * wx, d2x * d1y - d1x * d2y>>

\* Both intersection parameters exist and lie in [0, 1].
Intersecting(P1, P2, P3, P4) ==
    LET t == TrueParams(P1, P2, P3, P4)
    IN  t[3] # 0 /\ InUnit(t[1], t[3]) /\ InUnit(t[2], t[3])

SegCross == << <<0, 0>>, <<1, 1>>, <<0, 1>>, <<1, 0>> >>

SegParallel == << <<0, 0>>, <<1, 0>>, <<0, 1>>, <<1, 1>> >>

\* C5: segment_intersect returns (True, solution) exactly when both
\* intersection parameters of seg1 = (P1, P2) and seg2 = (P3, P4) lie in
\* [0, 1]; for ((0,0),(1,1)) and ((0,1),(1,0)) it returns (True, (0.5, 0.5)).
C5_SegmentIntersectIff ==
    SegDone =>
        /\ (segOut.kind = "return" /\ segOut.flag)
              <=> Intersecting(segIn[1], segIn[2], segIn[3], segIn[4])
        /\ segIn = SegCross =>
              /\ segOut.kind = "return"
              /\ segOut.flag
              /\ 2 * segOut.sol[1] = segOut.sol[3]
              /\ 2 * segOut.sol[2] = segOut.sol[3]

\* C6: on two segments that do not intersect, the parallel pair
\* ((0,0),(1,0)), ((0,1),(1,1)) included, segment_intersect returns a pair
\* whose first component is false; it neither raises nor returns nothing.
C6_NoIntersectionReturnsFalse ==
    (SegDone /\ ~Intersecting(segIn[1], segIn[2], segIn[3], segIn[4])) =>
        /\ segOut.kind = "return"
        /\ segOut.flag = FALSE

(***************************************************************************)
(* geometry.Patch.make_subgrid(grid, num)                                  *)
(*                                                                         *)
(* sg holds the locals of one call: the Point objects it creates (pts, a   *)
(* heap indexed by object identity), w_list, next_w, the position in the   *)
(* loops (endLine = bounds[k], index i), the Lines N and S of the cell in  *)
(* the making, cell_list, and the patch attribute cells.                   *)
(*                                                                         *)
(* Positions are logical coordinates <<c, r>> of the patch: c is the       *)
(* index of the bounding line the point lies on (0 for the West boundary,  *)
(* c for bounds[c], the chord from N_vertices[c] to S_vertices[c]) and r   *)
(* the flux surface it lies on (r for the surface through W_vertices[r]).  *)
(* A trace along a flux surface keeps r.                                   *)
(***************************************************************************)
NumColors == 5

\* grid.eq.draw_line(start, {'line': endLine}, option='theta'): the traced
\* Line, made of new Point objects, from the position of start to bounds[k].
draw_line(pts, start, k) ==
    [pts  |-> pts \o << pts[start], <<k, pts[start][2]>> >>,
     line |-> <<Len(pts) + 1, Len(pts) + 2>>]

RECURSIVE FromKeys(_, _)
\* list(dict.fromkeys(seq)): the first occurrence of every key, in order.
\* Point defines neither __eq__ nor __hash__: a key is an object identity.
FromKeys(seq, seen) ==
    IF seq = <<>> THEN <<>>
    ELSE IF Head(seq) \in seen
         THEN FromKeys(Tail(seq), seen)
         ELSE <<Head(seq)>> \o FromKeys(Tail(seq), seen \cup {Head(seq)})

\* Cell([N, S, E, W]) of make_cell, as the point lists of its four Lines.
Cell(N, S) ==
    [N |-> N,
     S |-> S,
     E |-> <<N[Len(N)], S[1]>>,
     W |-> <<S[Len(S)], N[1]>>]

SubgridInit ==
    \E num \in 1..MaxNum :
        sg = [pc |-> "call", num |-> num, pts |-> <<>>, w_list |-> <<>>,
              next_w |-> <<>>, k |-> 0, i |-> 0, N |-> <<>>, S |-> <<>>,
              cell_list |-> <<>>, cells |-> "unset", exc |-> "none"]

\* The number of bounding lines left after bounds.pop(0).
NumBounds == sg.num

\* Lines 302-385: the spline fits and the anchor vertices; w_list is the
\* list of the num + 1 vertices W_vertices, cell_list is empty.
SubgridSetup ==
    /\ sg.pc = "call"
    /\ sg' = [sg EXCEPT !.pc = "loop",
                        !.pts = [j \in 1..(sg.num + 1) |-> <<0, j - 1>>],
                        !.w_list = [j \in 1..(sg.num + 1) |-> j],
                        !.k = 1,
                        !.i = 0]
    /\ UNCHANGED <<lineVars, segVars, cg, topoVars, extraVars>>

\* splprep raises on a degenerate boundary.
SubgridSetupFails ==
    /\ sg.pc = "call"
    /\ sg' = [sg EXCEPT !.pc = "raised", !.exc = "spline"]
    /\ UNCHANGED <<lineVars, segVars, cg, topoVars, extraVars>>

InCellLoop ==
    /\ sg.pc = "loop"
    /\ sg.k <= NumBounds
    /\ sg.i < Len(sg.w_list) - 1

\* make_cell: N = draw_line(NW_vert, endLine) with NW_vert = w_list[i+1]
TraceNorth ==
    /\ InCellLoop
    /\ sg.N = <<>>
    /\ LET t == draw_line(sg.pts, sg.w_list[sg.i + 2], sg.k)
       IN  sg' = [sg EXCEPT !.pts = t.pts, !.N = t.line]
    /\ UNCHANGED <<lineVars, segVars, cg, topoVars, extraVars>>

\* make_cell: S = draw_line(SW_vert, endLine).reverse_copy(), SW_vert = w_list[i]
TraceSouth ==
    /\ InCellLoop
    /\ sg.N # <<>>
    /\ sg.S = <<>>
    /\ LET t == draw_line(sg.pts, sg.w_list[sg.i + 1], sg.k)
       IN  sg' = [sg EXCEPT !.pts = t.pts, !.S = Rev(t.line)]
    /\ UNCHANGED <<lineVars, segVars, cg, topoVars, extraVars>>

\* A trace that does not converge raises out of make_subgrid.
TraceFails ==
    /\ InCellLoop
    /\ sg.S = <<>>
    /\ sg' = [sg EXCEPT !.pc = "raised", !.exc = "trace"]
    /\ UNCHANGED <<lineVars, segVars, cg, topoVars, extraVars>>

\* Lines 392-397: the cell is closed, its two far-edge vertices are appended
\* to next_w, the frontier piece is plotted with colors[i] (a list of
\* NumColors colours) and the cell is appended to cell_list.
AppendCell ==
    /\ InCellLoop
    /\ sg.N # <<>>
    /\ sg.S # <<>>
    /\ LET new_cell == Cell(sg.N, sg.S)
           nw       == sg.next_w \o <<new_cell.S[1], new_cell.N[Len(new_cell.N)]>>
       IN  IF sg.i >= NumColors
           THEN sg' = [sg EXCEPT !.pc = "raised", !.exc = "IndexError",
                                 !.next_w = nw]
           ELSE sg' = [sg EXCEPT !.next_w = nw,
                                 !.cell_list = Append(sg.cell_list, new_cell),
                                 !.i = sg.i + 1,
                                 !.N = <<>>,
                                 !.S = <<>>]
    /\ UNCHANGED <<lineVars, segVars, cg, topoVars, extraVars>>

\* Lines 398-399: w_list = list(dict.fromkeys(next_w)); next_w = []
NextRow ==
    /\ sg.pc = "loop"
    /\ sg.k <= NumBounds
    /\ sg.i >= Len(sg.w_list) - 1
    /\ sg' = [sg EXCEPT !.w_list = FromKeys(sg.next_w, {}),
                        !.next_w = <<>>,
                        !.k = sg.k + 1,
                        !.i = 0]
    /\ UNCHANGED <<lineVars, segVars, cg, topoVars, extraVars>>

\* Line 401: self.cells = cell_list
SubgridFinish ==
    /\ sg.pc = "loop"
    /\ sg.k > NumBounds
    /\ sg' = [sg EXCEPT !.pc = "done", !.cells = sg.cell_list]
    /\ UNCHANGED <<lineVars, segVars, cg, topoVars, extraVars>>

InitSubgrid == LineOff /\ SegOff /\ SubgridInit /\ ConcatOff /\ TopoOff /\ ExtraOff

NextSubgrid ==
    \/ SubgridSetup
    \/ SubgridSetupFails
    \/ TraceNorth
    \/ TraceSouth
    \/ TraceFails
    \/ AppendCell
    \/ NextRow
    \/ SubgridFinish

SpecSubgrid == InitSubgrid /\ [][NextSubgrid]_vars

(***************************************************************************)
(* Properties of make_subgrid                                              *)
(***************************************************************************)
\* C7: when make_subgrid(grid, num) completes (num + 1 anchor points per
\* side), the patch's cells list holds exactly num x num Cell objects.
C7_SubgridHasNumTimesNumCells ==
    sg.pc = "done" => Len(sg.cells) = sg.num * sg.num

\* The four corner vertex objects of a cell: NW, NE, SE, SW.
Corners(c) == {c.N[1], c.N[Len(c.N)], c.S[1], c.S[Len(c.S)]}

SamePosition(u, v) == sg.pts[u] = sg.pts[v]

\* The frontier w_list holds one vertex object per position.
OneObjectPerCorner ==
    \A a, b \in 1..Len(sg.w_list) :
        a # b => ~SamePosition(sg.w_list[a], sg.w_list[b])

\* Two different cells hold the same object wherever their corners coincide.
SharedCornersIdentical ==
    \A a, b \in 1..Len(sg.cell_list) :
        a # b =>
            \A u \in Corners(sg.cell_list[a]), v \in Corners(sg.cell_list[b]) :
                SamePosition(u, v) => u = v

\* C8: every row of cells after the first starts from a frontier list that
\* holds exactly one vertex object per shared corner, and two cells adjacent
\* along an internal edge hold the identical vertex object for each shared
\* corner, never two independently traced copies.
C8_SharedVerticesAreSameObjects ==
    sg.pc \in {"loop", "done"} =>
        /\ OneObjectPerCorner
        /\ SharedCornersIdentical

(***************************************************************************)
(* SF45.concat_grid                                                        *)
(*                                                                         *)
(* The patch matrix (self.patch_matrix) is set outside the sources: rows   *)
(* are radial regions, columns poloidal regions.  concat_grid reads rows   *)
(* 1..3 and columns 1..4 (first region) and 7..10 (second region).  A      *)
(* filled patch holds cell_grid, a list of rows of cells; the patches of   *)
(* one matrix column hold cg.npc[column] cells per row and the patches of  *)
(* one matrix row hold cg.nrc[row] rows.                                   *)
(***************************************************************************)
Rows == 1..3

Region1Cols == 1..4

Region2Cols == 7..10

RegionCols(region) == IF region = 1 THEN Region1Cols ELSE Region2Cols

\* patch_matrix[jyp][ixp].cell_grid, as its numbers of rows and columns
cell_grid(jyp, ixp) == [rows |-> cg.nrc[jyp], cols |-> cg.npc[ixp]]

\* Lines 109-111: patch.npol = len(patch.cell_grid[0]) + 1
npol(jyp, ixp) == cell_grid(jyp, ixp).cols + 1

\* Lines 109-111: patch.nrad = len(patch.cell_grid) + 1
nrad(jyp, ixp) == cell_grid(jyp, ixp).rows + 1

RECURSIVE Sum(_, _)
\* np.sum of f over the finite set S
Sum(f, S) ==
    IF S = {} THEN 0
    ELSE LET x == CHOOSE y \in S : TRUE
         IN  f[x] + Sum(f, S \ {x})

\* Mutation of np_total: the two closing indices are not added.
np_total_open(region) ==
    Sum([ixp \in RegionCols(region) |-> npol(1, ixp) - 1], RegionCols(region))

\* Lines 114, 120: sum of npol - 1 over patch_matrix[1][1:5] (or [7:11]) + 2
np_total(region) ==
    Sum([ixp \in RegionCols(region) |-> npol(1, ixp) - 1], RegionCols(region)) + 2

\* Lines 117, 123: sum of nrad - 1 over patch[1] (or patch[7]) for
\* patch in patch_matrix[1:4], + 2
nr_total(region) ==
    LET col == IF region = 1 THEN 1 ELSE 7
    IN  Sum([jyp \in Rows |-> nrad(jyp, col) - 1], Rows) + 2

\* Lines 152-153, 187-188: the global poloidal index of local column ixl
ixcell(region, jyp, ixp, ixl) ==
    LET first == IF region = 1 THEN 1 ELSE 7
    IN  Sum([c \in first..ixp |-> npol(1, c) - 1], first..ixp)
            - cell_grid(jyp, ixp).cols + ixl + 1

\* Lines 136-155: nr_sum is the sum of nrad - 1 over the patches of the
\* column visited so far, the local patch included.
jycell(jyp, ixp, jyl) ==
    LET nr_sum == Sum([j \in 1..jyp |-> nrad(j, ixp) - 1], 1..jyp)
    IN  nr_sum - (nrad(jyp, ixp) - 1) + jyl + 1

\* The vertex names in the order of lines 158 and 193.
Coor == <<"CENTER", "SW", "SE", "NW", "NE">>

\* The name Verbose is bound neither in concat_grid nor in the module
\* SF45.py (lines 162 and 197 read it).
VerboseIsBound == FALSE

ConcatInit ==
    \E npc \in [Region1Cols \cup Region2Cols -> 1..MaxCells],
       nrc \in [Rows -> 1..MaxCells] :
        cg = [pc |-> "call", npc |-> npc, nrc |-> nrc,
              shape1 |-> <<>>, shape2 |-> <<>>,
              written |-> {}, exc |-> "none"]

\* Lines 107-131: the totals and the four arrays of zeros; rm1 and zm1 have
\* shape1, rm2 and zm2 have shape2.
ConcatAllocate ==
    /\ cg.pc = "call"
    /\ cg' = [cg EXCEPT !.pc = "loop",
                        !.shape1 = <<np_total(1), nr_total(1), 5>>,
                        !.shape2 = <<np_total(2), nr_total(2), 5>>]
    /\ UNCHANGED <<lineVars, segVars, sg, topoVars, extraVars>>

\* Lines 134-162, first pass of the loops (ixp = 1, jyp = 1, ixl = 0,
\* jyl = 0, coor = 'CENTER'): rm1 and zm1 are written at
\* [ixcell][jycell][0], ind becomes 1 and "if Verbose" is evaluated, which
\* raises NameError; no later pass of any loop is reached.
ConcatWriteFirst ==
    /\ cg.pc = "loop"
    /\ LET e == [region |-> 1, ix |-> ixcell(1, 1, 1, 0), jy |-> jycell(1, 1, 0),
                 ind |-> 0, jyp |-> 1, ixp |-> 1, jyl |-> 0, ixl |-> 0,
                 coor |-> Coor[1]]
       IN  /\ ~VerboseIsBound
           /\ cg' = [cg EXCEPT !.pc = "raised",
                               !.exc = "NameError",
                               !.written = cg.written \cup {e}]
    /\ UNCHANGED <<lineVars, segVars, sg, topoVars, extraVars>>

InitConcat == LineOff /\ SegOff /\ SubgridOff /\ ConcatInit /\ TopoOff /\ ExtraOff

NextConcat == ConcatAllocate \/ ConcatWriteFirst

SpecConcat == InitConcat /\ [][NextConcat]_vars

(***************************************************************************)
(* Properties of concat_grid                                               *)
(***************************************************************************)
Allocated == cg.pc \in {"loop", "raised", "done"}

Shape(region) == IF region = 1 THEN cg.shape1 ELSE cg.shape2

\* Cells of the patch at (jyp, ixp) in the poloidal and radial direction.
PolCells(jyp, ixp) == cg.npc[ixp]

RadCells(jyp, ixp) == cg.nrc[jyp]

\* C9: for each of the two regions, the poloidal dimension of the regional
\* array is the sum of the poloidal cell counts (npol - 1) of the region's
\* patches along a matrix row plus 2, and its radial dimension the sum of
\* the radial cell counts (nrad - 1) of the region's patches along a matrix
\* column plus 2.
C9_RegionalArrayDimensions ==
    Allocated =>
        \A region \in {1, 2} :
            /\ \A jyp \in Rows :
                  Shape(region)[1] =
                      Sum([c \in RegionCols(region) |-> PolCells(jyp, c)],
                          RegionCols(region)) + 2
            /\ \A ixp \in RegionCols(region) :
                  Shape(region)[2] =
                      Sum([j \in Rows |-> RadCells(j, ixp)], Rows) + 2

\* Witness of C9: the arrays are allocated for a matrix whose columns and
\* rows differ in their cell counts.
C9_Witness ==
    /\ Allocated
    /\ cg.npc[1] # cg.npc[2]
    /\ cg.npc[7] # cg.npc[8]
    /\ cg.nrc[1] # cg.nrc[2]
    /\ cg.shape1[1] > 6
    /\ cg.shape1 # cg.shape2

\* Cells of the patches before column ixp in the matrix row, and before row
\* jyp in the matrix column.
CellsBeforeCol(region, jyp, ixp) ==
    LET before == {c \in RegionCols(region) : c < ixp}
    IN  Sum([c \in before |-> PolCells(jyp, c)], before)

CellsBeforeRow(jyp, ixp) ==
    LET before == {j \in Rows : j < jyp}
    IN  Sum([j \in before |-> RadCells(j, ixp)], before)

WrittenAt(region, ix, jy, ind) ==
    {e \in cg.written : e.region = region /\ e.ix = ix /\ e.jy = jy /\ e.ind = ind}

\* C10: when concat_grid has run, each cell (jyl, ixl) of each patch of the
\* matrix has been written to the global index given by the cell counts of
\* the preceding patches of its row and column plus its local index plus 1;
\* every written index lies in the interior 1..np_total-2 by 1..nr_total-2,
\* no two cells are written to the same index and every interior index is
\* written by exactly one cell.
C10_EveryCellWrittenOnce ==
    cg.pc \in {"raised", "done"} =>
        \A region \in {1, 2} :
            /\ \A jyp \in Rows, ixp \in RegionCols(region) :
                  \A jyl \in 0..(RadCells(jyp, ixp) - 1),
                     ixl \in 0..(PolCells(jyp, ixp) - 1) :
                      \A ind \in 0..4 :
                          \E e \in WrittenAt(region,
                                             CellsBeforeCol(region, jyp, ixp) + ixl + 1,
                                             CellsBeforeRow(jyp, ixp) + jyl + 1,
                                             ind) :
                              /\ e.jyp = jyp
                              /\ e.ixp = ixp
                              /\ e.jyl = jyl
                              /\ e.ixl = ixl
            /\ \A e \in cg.written :
                  e.region = region =>
                      /\ e.ix \in 1..(Shape(region)[1] - 2)
                      /\ e.jy \in 1..(Shape(region)[2] - 2)
            /\ \A ix \in 1..(Shape(region)[1] - 2), jy \in 1..(Shape(region)[2] - 2) :
                  \A ind \in 0..4 :
                      Cardinality(WrittenAt(region, ix, jy, ind)) = 1


(***************************************************************************)
(* SF45.construct_patches                                                  *)
(*                                                                         *)
(* construct_patches is a fixed sequence of statements: it makes the plate *)
(* and mid-plane Lines, traces Lines with self.eq.draw_line, takes reverse *)
(* copies, splits Lines and assembles 27 patches.  Recipe lists the        *)
(* statements in program order, each with its source line; cp.i is the     *)
(* statement to execute next and cp.lines holds the local Line variables.  *)
(*                                                                         *)
(* A Point is an object identity (a number handed out in order of          *)
(* creation).  The tracer draw_line is not part of the sources: a trace    *)
(* returns a new Line of cp.res + 1 new Points, the first at the start     *)
(* position; a trace bounded by a Line ends on that Line between two of    *)
(* its consecutive samples, kept in cp.on for the end Point.  cp.x1 and    *)
(* cp.x2 hold the Points that sit at a start point of xpt1 and of xpt2.    *)
(***************************************************************************)
MaxRes == 2   \* most segments of a traced Line

NoPt == [kind |-> "none", name |-> "", at |-> ""]

\* xpt1['N'], xpt2['SW'], ...: one of the eight start points of an X-point
XStart(x, dir) == [kind |-> "xpt", name |-> x, at |-> dir]

\* line.p[0] (first), line.p[-1] (last), line.p[len(line.p)//2] (mid)
EndOf(line, at) == [kind |-> "end", name |-> line, at |-> at]

Stmt(op, out, out2, src, pt, pt2, flag, ln) ==
    [op |-> op, out |-> out, out2 |-> out2, src |-> src, pt |-> pt,
     pt2 |-> pt2, flag |-> flag, ln |-> ln]

\* out = Line([Point(...), ...])
NewLine(out, ln) == Stmt("new", out, "", "", NoPt, NoPt, FALSE, ln)

\* out = self.eq.draw_line(start, {'line': tgt}) (tgt = "": a psi bound)
Trace(out, start, tgt, ln) == Stmt("trace", out, "", tgt, start, NoPt, FALSE, ln)

\* out = src
Name(out, src, ln) == Stmt("name", out, "", src, NoPt, NoPt, FALSE, ln)

\* out = src.reverse_copy()
Rc(out, src, ln) == Stmt("rc", out, "", src, NoPt, NoPt, FALSE, ln)

\* out, out2 = src.split(pt, add_split_point=True)
Split(out, out2, src, pt, ln) == Stmt("split", out, out2, src, pt, NoPt, TRUE, ln)

\* out = (plate.split(a)[1]).split(b, add_split_point=True)[0]
PlateSplit(out, plate, a, b, ln) == Stmt("plate", out, "", plate, a, b, TRUE, ln)

\* name = Patch([name_N, name_E, name_S, name_W], patchName=name, ...)
MkPatch(name, platePatch, loc, ln) ==
    Stmt("patch", name, loc, "", NoPt, NoPt, platePatch, ln)

\* self.patches = {}; for patch in patches: self.patches[...] = patch
Store(ln) == Stmt("store", "", "", "", NoPt, NoPt, FALSE, ln)

Recipe ==
    << NewLine("WestPlate1", 292),
       NewLine("WestPlate2", 293),
       NewLine("EastPlate1", 295),
       NewLine("EastPlate2", 296),
       NewLine("west_midLine", 301),
       NewLine("east_midLine", 306),
       NewLine("topLine", 312),
       Trace("xpt1N__psiMinCore", XStart("xpt1", "N"), "", 319),
       Name("E1_E", "xpt1N__psiMinCore", 321),
       Rc("B1_W", "E1_E", 322),
       Trace("xpt1NW__west_midLine", XStart("xpt1", "NW"), "west_midLine", 325),
       Name("B1_N", "xpt1NW__west_midLine", 327),
       Rc("B2_S", "B1_N", 328),
       Trace("xpt1NE__east_midLine", XStart("xpt1", "NE"), "east_midLine", 331),
       Rc("E1_N", "xpt1NE__east_midLine", 333),
       Rc("E2_S", "E1_N", 334),
       Trace("west_midLine__topLine", EndOf("xpt1NW__west_midLine", "last"), "topLine", 337),
       Name("C1_N", "west_midLine__topLine", 339),
       Rc("C2_S", "C1_N", 340),
       Trace("east_midLine__topLine", EndOf("xpt1NE__east_midLine", "last"), "topLine", 343),
       Rc("D1_N", "east_midLine__topLine", 345),
       Rc("D2_S", "D1_N", 346),
       Trace("psiMinCore__west_midLine_core", EndOf("xpt1N__psiMinCore", "last"), "west_midLine", 351),
       Rc("B1_S", "psiMinCore__west_midLine_core", 353),
       Trace("psiMinCore__east_midLine_core", EndOf("xpt1N__psiMinCore", "last"), "east_midLine", 356),
       Name("E1_S", "psiMinCore__east_midLine_core", 358),
       Trace("west_midLine_core__topLine", EndOf("psiMinCore__west_midLine_core", "last"), "topLine", 361),
       Rc("C1_S", "west_midLine_core__topLine", 363),
       Trace("east_midLine_core__topLine", EndOf("psiMinCore__east_midLine_core", "last"), "topLine", 366),
       Name("D1_S", "east_midLine_core__topLine", 368),
       Trace("xpt1__psiMinPF1", XStart("xpt1", "S"), "", 371),
       Name("A1_E", "xpt1__psiMinPF1", 373),
       Rc("F1_W", "A1_E", 374),
       Trace("psiMinPF1__WestPlate1", EndOf("xpt1__psiMinPF1", "last"), "WestPlate1", 377),
       Name("A1_S", "psiMinPF1__WestPlate1", 379),
       Trace("psiMinPF1__EastPlate1", EndOf("xpt1__psiMinPF1", "last"), "EastPlate1", 382),
       Trace("xpt1__WestPlate1", XStart("xpt1", "SW"), "WestPlate1", 388),
       Name("A2_S", "xpt1__WestPlate1", 390),
       Rc("A1_N", "A2_S", 391),
       Trace("xpt1__EastPlate1", XStart("xpt1", "SE"), "EastPlate1", 394),
       Trace("F2_E", XStart("xpt2", "N"), "xpt1__EastPlate1", 400),
       Trace("F1_E", EndOf("F2_E", "last"), "psiMinPF1__EastPlate1", 402),
       Rc("I1_W", "F1_E", 405),
       Rc("I2_W", "F2_E", 406),
       Split("F1_N", "I1_N", "xpt1__EastPlate1", EndOf("I2_W", "first"), 408),
       Rc("I2_S", "I1_N", 409),
       Rc("F2_S", "F1_N", 410),
       Rc("rc_411", "psiMinPF1__EastPlate1", 411),
       Split("I1_S", "F1_S", "rc_411", EndOf("I1_W", "first"), 411),
       Trace("I2_N", XStart("xpt2", "NW"), "EastPlate1", 414),
       Rc("I3_S", "I2_N", 416),
       Trace("xpt2NE__east_midLine", XStart("xpt2", "NE"), "east_midLine", 419),
       Trace("F2_W", XStart("xpt1", "E"), "xpt2NE__east_midLine", 421),
       Rc("E2_E", "F2_W", 423),
       Rc("rc_425", "xpt2NE__east_midLine", 425),
       Split("E2_N", "F2_N", "rc_425", EndOf("F2_W", "last"), 425),
       Rc("F3_S", "F2_N", 426),
       Rc("E3_S", "E2_N", 427),
       Trace("xpt2__east_midLine__topLine", EndOf("xpt2NE__east_midLine", "last"), "topLine", 430),
       Name("D3_S", "xpt2__east_midLine__topLine", 432),
       Rc("D2_N", "D3_S", 433),
       Trace("xpt2__topLine__west_midLine", EndOf("xpt2__east_midLine__topLine", "last"), "west_midLine", 436),
       Name("C3_S", "xpt2__topLine__west_midLine", 438),
       Rc("C2_N", "C3_S", 439),
       Trace("xpt2__west_midLine__WestPlate1", EndOf("xpt2__topLine__west_midLine", "last"), "WestPlate1", 441),
       Trace("B2_W", XStart("xpt1", "W"), "xpt2__west_midLine__WestPlate1", 445),
       Rc("A2_E", "B2_W", 447),
       Rc("rc_450", "xpt2__west_midLine__WestPlate1", 450),
       Split("A2_N", "B2_N", "rc_450", EndOf("B2_W", "last"), 450),
       Rc("A3_S", "A2_N", 451),
       Rc("B3_S", "B2_N", 452),
       Trace("xpt2__psiMinPF2", XStart("xpt2", "S"), "", 454),
       Rc("rc_457", "xpt2__psiMinPF2", 457),
       Split("G1_W", "G2_W", "rc_457", EndOf("xpt2__psiMinPF2", "mid"), 457),
       Rc("H1_E", "G1_W", 458),
       Rc("H2_E", "G2_W", 459),
       Trace("tr_461", EndOf("G1_W", "first"), "EastPlate2", 461),
       Rc("G1_S", "tr_461", 462),
       Trace("H1_S", EndOf("G1_W", "first"), "WestPlate2", 463),
       Trace("G1_N", EndOf("G2_W", "first"), "EastPlate2", 466),
       Rc("G2_S", "G1_N", 468),
       Trace("tr_470", EndOf("G2_W", "first"), "WestPlate2", 470),
       Rc("H1_N", "tr_470", 471),
       Rc("H2_S", "H1_N", 472),
       Trace("G2_N", XStart("xpt2", "SE"), "EastPlate2", 474),
       Rc("G3_S", "G2_N", 476),
       Trace("tr_478", XStart("xpt2", "SW"), "WestPlate2", 478),
       Rc("H2_N", "tr_478", 479),
       Rc("H3_S", "H2_N", 480),
       Trace("tr_483", XStart("xpt2", "W"), "", 483),
       Rc("H3_E", "tr_483", 484),
       Rc("I3_W", "H3_E", 485),
       Trace("tr_488", EndOf("H3_E", "first"), "EastPlate1", 488),
       Rc("H3_N", "tr_488", 489),
       Trace("I3_N", EndOf("H3_E", "first"), "EastPlate1", 491),
       Trace("G3_W", XStart("xpt2", "E"), "", 494),
       Rc("F3_E", "G3_W", 496),
       Trace("G3_N", EndOf("G3_W", "last"), "EastPlate2", 499),
       Trace("G3_W__east_midLine", EndOf("G3_W", "last"), "east_midLine", 502),
       Trace("F3_W", EndOf("F2_W", "last"), "G3_W__east_midLine", 505),
       Rc("E3_E", "F3_W", 507),
       Rc("rc_509", "G3_W__east_midLine", 509),
       Split("E3_N", "F3_N", "rc_509", EndOf("F3_W", "last"), 509),
       Trace("tr_511", EndOf("E3_N", "first"), "topLine", 511),
       Rc("D3_N", "tr_511", 512),
       Trace("tr_513", EndOf("D3_N", "first"), "west_midLine", 513),
       Rc("C3_N", "tr_513", 514),
       Trace("west_midLine__WestPlate1", EndOf("C3_N", "first"), "WestPlate1", 516),
       Trace("B3_W", EndOf("B2_W", "last"), "west_midLine__WestPlate1", 518),
       Rc("A3_E", "B3_W", 520),
       Rc("rc_522", "west_midLine__WestPlate1", 522),
       Split("A3_N", "B3_N", "rc_522", EndOf("B3_W", "last"), 522),
       Trace("B1_E", EndOf("B1_N", "last"), "", 524),
       Rc("C1_W", "B1_E", 526),
       Trace("B2_E", EndOf("B2_N", "last"), "", 528),
       Rc("C2_W", "B2_E", 530),
       Trace("B3_E", EndOf("B3_N", "last"), "", 532),
       Rc("C3_W", "B3_E", 534),
       Trace("C1_E", EndOf("C1_N", "last"), "", 536),
       Rc("D1_W", "C1_E", 538),
       Trace("C2_E", EndOf("C2_N", "last"), "", 540),
       Rc("D2_W", "C2_E", 542),
       Trace("C3_E", EndOf("C3_N", "last"), "", 544),
       Rc("D3_W", "C3_E", 546),
       Trace("tr_548", EndOf("E1_N", "first"), "", 548),
       Rc("E1_W", "tr_548", 549),
       Rc("D1_E", "E1_W", 550),
       Trace("tr_552", EndOf("E2_N", "first"), "", 552),
       Rc("E2_W", "tr_552", 553),
       Rc("D2_E", "E2_W", 554),
       Trace("tr_556", EndOf("E3_N", "first"), "", 556),
       Rc("E3_W", "tr_556", 557),
       Rc("D3_E", "E3_W", 558),
       PlateSplit("A1_W", "WestPlate1", EndOf("A1_S", "last"), EndOf("A1_N", "first"), 562),
       PlateSplit("A2_W", "WestPlate1", EndOf("A2_S", "last"), EndOf("A2_N", "first"), 566),
       PlateSplit("A3_W", "WestPlate1", EndOf("A3_S", "last"), EndOf("A3_N", "first"), 570),
       PlateSplit("H1_W", "WestPlate2", EndOf("H1_S", "last"), EndOf("H1_N", "first"), 575),
       PlateSplit("H2_W", "WestPlate2", EndOf("H2_S", "last"), EndOf("H2_N", "first"), 579),
       PlateSplit("H3_W", "WestPlate2", EndOf("H3_S", "last"), EndOf("H3_N", "first"), 583),
       PlateSplit("I1_E", "EastPlate1", EndOf("I1_N", "last"), EndOf("I1_S", "first"), 588),
       PlateSplit("I2_E", "EastPlate1", EndOf("I2_N", "last"), EndOf("I2_S", "first"), 592),
       PlateSplit("I3_E", "EastPlate1", EndOf("I3_N", "last"), EndOf("I3_S", "first"), 596),
       PlateSplit("G1_E", "EastPlate2", EndOf("G1_N", "last"), EndOf("G1_S", "first"), 600),
       PlateSplit("G2_E", "EastPlate2", EndOf("G2_N", "last"), EndOf("G2_S", "first"), 604),
       PlateSplit("G3_E", "EastPlate2", EndOf("G3_N", "last"), EndOf("G3_S", "first"), 608),
       MkPatch("A1", TRUE, "W", 614),
       MkPatch("A2", TRUE, "W", 617),
       MkPatch("A3", TRUE, "W", 620),
       MkPatch("B1", FALSE, "", 624),
       MkPatch("B2", FALSE, "", 626),
       MkPatch("B3", FALSE, "", 628),
       MkPatch("C1", FALSE, "", 631),
       MkPatch("C2", FALSE, "", 633),
       MkPatch("C3", FALSE, "", 635),
       MkPatch("D1", FALSE, "", 638),
       MkPatch("D2", FALSE, "", 640),
       MkPatch("D3", FALSE, "", 642),
       MkPatch("E1", FALSE, "", 645),
       MkPatch("E2", FALSE, "", 647),
       MkPatch("E3", FALSE, "", 649),
       MkPatch("F1", FALSE, "", 652),
       MkPatch("F2", FALSE, "", 654),
       MkPatch("F3", FALSE, "", 656),
       MkPatch("G1", FALSE, "", 659),
       MkPatch("G2", FALSE, "", 661),
       MkPatch("G3", FALSE, "", 663),
       MkPatch("H1", FALSE, "", 666),
       MkPatch("H2", FALSE, "", 668),
       MkPatch("H3", FALSE, "", 670),
       MkPatch("I1", FALSE, "", 673),
       MkPatch("I2", FALSE, "", 675),
       MkPatch("I3", FALSE, "", 677),
       Store(682) >>

\* patches = [A3, A2, A1, B3, ...] (lines 679-680): the order of self.patches
PatchOrder ==
    << "A3", "A2", "A1", "B3", "B2", "B1", "C3", "C2", "C1",
       "D3", "D2", "D1", "E3", "E2", "E1", "F3", "F2", "F1",
       "G3", "G2", "G1", "H3", "H2", "H1", "I3", "I2", "I1" >>

PatchNames == {PatchOrder[k] : k \in 1..Len(PatchOrder)}

Has(p, x) == \E k \in 1..Len(p) : p[k] = x

Idx(p, x) == CHOOSE k \in 1..Len(p) : p[k] = x /\ \A j \in 1..(k - 1) : p[j] # x

Max2(a, b) == IF a >= b THEN a ELSE b

\* The Point a statement names: an end or the middle sample of a local Line.
PointAt(st, spec) ==
    LET p == st.lines[spec.name].p
    IN  CASE spec.at = "first" -> p[1]
          [] spec.at = "last"  -> p[Len(p)]
          [] spec.at = "mid"   -> p[(Len(p) \div 2) + 1]

\* find_split_index for the Points of the recipe: a sample is found at its
\* own index; the end Point of a trace that stopped on the Line between the
\* samples u and v is nearest to the later of the two; a Point off the Line
\* is nearest to the last sample.
recipe_split_index(st, p, pt) ==
    IF Has(p, pt) THEN Idx(p, pt)
    ELSE IF pt \in DOMAIN st.on
         THEN LET u == st.on[pt][1]
                  v == st.on[pt][2]
              IN  IF Has(p, u) /\ Has(p, v) THEN Max2(Idx(p, u), Idx(p, v))
                  ELSE IF Has(p, v) THEN Idx(p, v)
                  ELSE IF Has(p, u) THEN Idx(p, u)
                  ELSE Len(p)
         ELSE Len(p)

recipe_split(st, line, pt, add_split_point) ==
    split_at(line, pt, add_split_point,
             recipe_split_index(st, line.p, pt), Has(line.p, pt))

Bind(st, name, line) == [st EXCEPT !.lines = (name :> line) @@ st.lines]

\* Lines 292-312: a plate or a mid-plane Line made of two new Points.
ExecNew(st, s) ==
    [Bind(st, s.out, Line(<<st.next, st.next + 1>>)) EXCEPT !.next = st.next + 2]

\* self.eq.draw_line(start, bound): the traced Line.
ExecTrace(st, s) ==
    LET ids  == [k \in 1..(st.res + 1) |-> st.next + k - 1]
        last == ids[st.res + 1]
        t    == IF s.src = "" THEN <<>> ELSE st.lines[s.src].p
        h    == IF st.hit < Len(t) THEN st.hit ELSE Len(t) - 1
        st1  == [Bind(st, s.out, Line(ids)) EXCEPT !.next = st.next + st.res + 1]
        st2  == IF s.src = "" THEN st1
                ELSE [st1 EXCEPT !.on = (last :> <<t[h], t[h + 1]>>) @@ st.on]
    IN  IF s.pt.kind = "xpt" /\ s.pt.name = "xpt1"
        THEN [st2 EXCEPT !.x1 = st.x1 \cup {ids[1]}]
        ELSE IF s.pt.kind = "xpt" /\ s.pt.name = "xpt2"
             THEN [st2 EXCEPT !.x2 = st.x2 \cup {ids[1]}]
             ELSE st2

ExecName(st, s) == Bind(st, s.out, st.lines[s.src])

\* Mutation of the reverse-copy statements: the reverse_copy() call is left out.
ExecRc_alias(st, s) == ExecName(st, s)

ExecRc(st, s) == Bind(st, s.out, reverse_copy(st.lines[s.src]).ret[1].obj)

ExecSplit(st, s) ==
    LET r == recipe_split(st, st.lines[s.src], PointAt(st, s.pt), TRUE)
    IN  Bind(Bind(st, s.out, r.ret[1].obj), s.out2, r.ret[2].obj)

\* Lines 561-610, the try branch: the piece of the plate after its first
\* division, divided again; the first Line of the second division.
ExecPlateSplit(st, s) ==
    LET piece == recipe_split(st, st.lines[s.src], PointAt(st, s.pt), FALSE).ret[2].obj
        r     == recipe_split(st, piece, PointAt(st, s.pt2), TRUE)
    IN  [Bind(st, s.out, r.ret[1].obj) EXCEPT
            !.plateOf = (s.out :> s.src) @@ st.plateOf]

\* geometry.Patch(lines, patchName, platePatch, plateLocation)
Patch(st, s) ==
    [patchName     |-> s.out,
     N             |-> st.lines[s.out \o "_N"],
     E             |-> st.lines[s.out \o "_E"],
     S             |-> st.lines[s.out \o "_S"],
     W             |-> st.lines[s.out \o "_W"],
     platePatch    |-> s.flag,
     plateLocation |-> s.out2]

ExecPatch(st, s) == [st EXCEPT !.made = (s.out :> Patch(st, s)) @@ st.made]

\* Lines 679-686: self.patches, keyed by patchName in the order of the list;
\* the locals go out of scope.
ExecStore(st, s) ==
    [st EXCEPT !.pc = "built",
               !.patches = [k \in 1..Len(PatchOrder) |-> st.made[PatchOrder[k]]],
               !.lines = <<>>,
               !.made = <<>>]

Exec(st, s) ==
    LET st1 == CASE s.op = "new"   -> ExecNew(st, s)
                 [] s.op = "trace" -> ExecTrace(st, s)
                 [] s.op = "name"  -> ExecName(st, s)
                 [] s.op = "rc"    -> ExecRc(st, s)
                 [] s.op = "split" -> ExecSplit(st, s)
                 [] s.op = "plate" -> ExecPlateSplit(st, s)
                 [] s.op = "patch" -> ExecPatch(st, s)
                 [] s.op = "store" -> ExecStore(st, s)
    IN  [st1 EXCEPT !.i = st.i + 1]

\* The state on entry of construct_patches for a tracer of resolution res
\* whose bounded traces stop on segment hit of the bounding Line.
PatchesStart(res, hit) ==
    [pc |-> "run", i |-> 1, res |-> res, hit |-> hit, next |-> 1,
     lines |-> <<>>, on |-> <<>>, x1 |-> {}, x2 |-> {}, plateOf |-> <<>>,
     made |-> <<>>, patches |-> <<>>, checked |-> <<>>, exc |-> "none",
     failed |-> ""]

PatchesInit ==
    \E res \in 1..MaxRes, hit \in 1..MaxRes :
        /\ hit <= res
        /\ cp = PatchesStart(res, hit)

Running(op) == cp.pc = "run" /\ Recipe[cp.i].op = op

StepNew ==
    /\ Running("new")
    /\ cp' = Exec(cp, Recipe[cp.i])
    /\ UNCHANGED <<lineVars, segVars, sg, cg, gr, gn, fl, extraVars>>

StepTrace ==
    /\ Running("trace")
    /\ cp' = Exec(cp, Recipe[cp.i])
    /\ UNCHANGED <<lineVars, segVars, sg, cg, gr, gn, fl, extraVars>>

\* draw_line raises (the trace does not converge): nothing in
\* construct_patches catches it, the call ends and self.patches is not set.
StepTraceFails ==
    /\ Running("trace")
    /\ cp' = [cp EXCEPT !.pc = "raised", !.exc = "TraceError",
                        !.failed = Recipe[cp.i].out]
    /\ UNCHANGED <<lineVars, segVars, sg, cg, gr, gn, fl, extraVars>>

StepName ==
    /\ Running("name")
    /\ cp' = Exec(cp, Recipe[cp.i])
    /\ UNCHANGED <<lineVars, segVars, sg, cg, gr, gn, fl, extraVars>>

StepReverseCopy ==
    /\ Running("rc")
    /\ cp' = Exec(cp, Recipe[cp.i])
    /\ UNCHANGED <<lineVars, segVars, sg, cg, gr, gn, fl, extraVars>>

StepSplit ==
    /\ Running("split")
    /\ cp' = Exec(cp, Recipe[cp.i])
    /\ UNCHANGED <<lineVars, segVars, sg, cg, gr, gn, fl, extraVars>>

StepPlateSplit ==
    /\ Running("plate")
    /\ cp' = Exec(cp, Recipe[cp.i])
    /\ UNCHANGED <<lineVars, segVars, sg, cg, gr, gn, fl, extraVars>>

StepPatch ==
    /\ Running("patch")
    /\ cp' = Exec(cp, Recipe[cp.i])
    /\ UNCHANGED <<lineVars, segVars, sg, cg, gr, gn, fl, extraVars>>

StepStore ==
    /\ Running("store")
    /\ cp' = Exec(cp, Recipe[cp.i])
    /\ UNCHANGED <<lineVars, segVars, sg, cg, gr, gn, fl, extraVars>>

\* SF45.CheckPatches: patch.CheckPatch(self) for every patch of self.patches
\* with patch.platePatch set.
CheckPatches ==
    /\ cp.pc = "built"
    /\ cp' = [cp EXCEPT !.pc = "checked",
                        !.checked = SelectSeq([k \in 1..Len(cp.patches) |-> cp.patches[k]],
                                              LAMBDA q : q.platePatch)]
    /\ UNCHANGED <<lineVars, segVars, sg, cg, gr, gn, fl, extraVars>>

InitPatches ==
    LineOff /\ SegOff /\ SubgridOff /\ ConcatOff /\ PatchesInit /\ GridOff /\ NpointsOff /\ FlipOff
    /\ ExtraOff

NextPatches ==
    \/ StepNew
    \/ StepTrace
    \/ StepTraceFails
    \/ StepName
    \/ StepReverseCopy
    \/ StepSplit
    \/ StepPlateSplit
    \/ StepPatch
    \/ StepStore
    \/ CheckPatches

SpecPatches == InitPatches /\ [][NextPatches]_vars


(***************************************************************************)
(* The patch set construct_patches leaves in self.patches when no trace    *)
(* fails, for the coarsest tracer.                                         *)
(***************************************************************************)
RECURSIVE RunRecipe(_, _)
RunRecipe(st, n) ==
    IF n = 0 \/ st.pc # "run" THEN st
    ELSE IF n = 1 THEN Exec(st, Recipe[st.i])
    ELSE LET half == n \div 2
             mid  == RunRecipe(st, half)
         IN  RunRecipe(mid, n - half)

PatchesBuilt == RunRecipe(PatchesStart(1, 1), Len(Recipe))

CornerNames == {"NW", "NE", "SE", "SW"}

\* The Point objects at a corner of a patch: the ends of the two boundary
\* Lines that meet there (N runs west to east, E north to south, S east to
\* west, W south to north).
CornerPts(q, c) ==
    CASE c = "NW" -> {q.N.p[1], q.W.p[Len(q.W.p)]}
      [] c = "NE" -> {q.N.p[Len(q.N.p)], q.E.p[1]}
      [] c = "SE" -> {q.E.p[Len(q.E.p)], q.S.p[1]}
      [] c = "SW" -> {q.S.p[Len(q.S.p)], q.W.p[1]}

\* The corners that lie at a start point of an X-point: <<patch, corner, xpt>>
XCorners(st) ==
    {t \in PatchNames \X CornerNames \X {"xpt1", "xpt2"} :
        \E k \in 1..Len(st.patches) :
            /\ st.patches[k].patchName = t[1]
            /\ CornerPts(st.patches[k], t[2]) \cap
                   (IF t[3] = "xpt1" THEN st.x1 ELSE st.x2) # {}}


(***************************************************************************)
(* Properties of construct_patches and CheckPatches                        *)
(***************************************************************************)
PatchOf(st, name) ==
    st.patches[CHOOSE k \in 1..Len(st.patches) : st.patches[k].patchName = name]

Side(q, b) ==
    CASE b = "N" -> q.N
      [] b = "E" -> q.E
      [] b = "S" -> q.S
      [] b = "W" -> q.W

Letters == <<"A", "B", "C", "D", "E", "F", "G", "H", "I">>

\* The pairs of neighbouring patches of the SF45 patch map, with the
\* boundary each has on the other: the rows k and k + 1 of every column
\* meet along N and S; along a row, the E boundary of a patch meets the W
\* boundary of the next patch around the core (B, C, D, E), through the
\* scrape-off layers (A .. F, then I or G) and through the private-flux
\* regions (A1, F1, I1 and H, G).
Neighbours ==
    {<<Letters[l] \o "1", "N", Letters[l] \o "2", "S">> : l \in 1..9}
    \cup {<<Letters[l] \o "2", "N", Letters[l] \o "3", "S">> : l \in 1..9}
    \cup {<<Letters[l] \o r, "E", Letters[l + 1] \o r, "W">> :
              l \in 2..4, r \in {"1", "2", "3"}}
    \cup {<<"A2", "E", "B2", "W">>, <<"A3", "E", "B3", "W">>,
          <<"A1", "E", "F1", "W">>, <<"E1", "E", "B1", "W">>,
          <<"E2", "E", "F2", "W">>, <<"E3", "E", "F3", "W">>,
          <<"F1", "E", "I1", "W">>, <<"F2", "E", "I2", "W">>,
          <<"F3", "E", "G3", "W">>, <<"H1", "E", "G1", "W">>,
          <<"H2", "E", "G2", "W">>, <<"H3", "E", "I3", "W">>}

PatchesStored == cp.pc \in {"built", "checked"}

\* C13: in the patch set built by construct_patches, the boundary Line two
\* neighbouring patches share is the same sequence of Points in opposite
\* order in the two patches, so that the end points coincide.
C13_SharedBoundariesAreReversed ==
    PatchesStored =>
        \A nb \in Neighbours :
            LET a == Side(PatchOf(cp, nb[1]), nb[2]).p
                b == Side(PatchOf(cp, nb[3]), nb[4]).p
            IN  /\ a = Rev(b)
                /\ a[1] = b[Len(b)]
                /\ a[Len(a)] = b[1]

\* Witness of C13: the patches are stored, the shared Lines have interior
\* samples and the pieces of a split Line (F1_N, I1_N) are shared.
C13_Witness ==
    /\ PatchesStored
    /\ cp.res = 2
    /\ Len(PatchOf(cp, "F1").N.p) >= 2
    /\ Len(PatchOf(cp, "B1").N.p) = 3
    /\ PatchOf(cp, "F2").S.p = Rev(PatchOf(cp, "F1").N.p)
    /\ PatchOf(cp, "I2").S.p = Rev(PatchOf(cp, "I1").N.p)


(***************************************************************************)
(* SF45.GetNpoints, SF45.AdjustPatch and SF45.construct_grid               *)
(*                                                                         *)
(* settings holds the cell counts of 'grid_generation' and the local       *)
(* poloidal counts of the plates; 0 stands for a key that is absent.       *)
(***************************************************************************)
MaxCount == 2   \* largest configured cell count

Unset == 0

Counts == 1..MaxCount

OptCounts == {Unset} \cup Counts

Settings(npg, nps, npc, npp, nrg, nrs, nrc, nrp, w1, e1) ==
    [np_global |-> npg, np_sol |-> nps, np_core |-> npc, np_pf |-> npp,
     nr_global |-> nrg, nr_sol |-> nrs, nr_core |-> nrc, nr_pf |-> nrp,
     np_local_W1 |-> w1, np_local_E1 |-> e1]

\* The configurations of the model: the poloidal counts vary with the
\* radial counts left to the global default, or the other way round.
SettingsSet ==
    {Settings(npg, nps, npc, Unset, 1, Unset, Unset, Unset, w1, 1) :
        npg \in Counts, nps \in OptCounts, npc \in OptCounts, w1 \in Counts}
    \cup
    {Settings(1, Unset, Unset, Unset, nrg, Unset, nrc, nrp, w1, 1) :
        nrg \in Counts, nrc \in OptCounts, nrp \in OptCounts, w1 \in Counts}

\* try: x = settings[...][key]  except: x = settings[...][global key]
Lookup(value, default) == IF value = Unset THEN default ELSE value

Min2(a, b) == IF a <= b THEN a ELSE b

\* SF45.GetNpoints(Patch, Enforce): the outcome of the call.  The names
\* nr_cells and np_cells of the return statement are bound nowhere in the
\* function but in the plate branch (np_cells): evaluating nr_cells raises
\* NameError.
GetNpoints(settings, platePatch, plateLocation, Enforce) ==
    LET np_sol0  == Lookup(settings.np_sol, settings.np_global)
        np_core0 == Lookup(settings.np_core, settings.np_global)
        np_pf    == Lookup(settings.np_pf, settings.np_global)
        np_sol   == IF np_sol0 # np_core0 THEN Min2(np_sol0, np_core0) ELSE np_sol0
        np_core  == np_sol
        nr_sol   == Lookup(settings.nr_sol, settings.nr_global)
        nr_core0 == Lookup(settings.nr_core, settings.nr_global)
        nr_pf0   == Lookup(settings.nr_pf, settings.nr_global)
        nr_pf    == IF nr_pf0 # nr_core0 THEN Min2(nr_pf0, nr_core0) ELSE nr_pf0
        nr_core  == nr_pf
        warn1    == IF np_sol0 # np_core0 THEN <<"np">> ELSE <<>>
        warn2    == IF nr_pf0 # nr_core0 THEN <<"nr">> ELSE <<>>
    IN  IF np_sol0 # np_core0 /\ Enforce
        THEN [kind |-> "raise", exc |-> "ValueError", warnings |-> <<>>,
              np_sol |-> np_sol0, np_core |-> np_core0,
              nr_pf |-> nr_pf0, nr_core |-> nr_core0]
        ELSE IF nr_pf0 # nr_core0 /\ Enforce
             THEN [kind |-> "raise", exc |-> "ValueError", warnings |-> warn1,
                   np_sol |-> np_sol, np_core |-> np_core,
                   nr_pf |-> nr_pf0, nr_core |-> nr_core0]
             ELSE [kind |-> "raise", exc |-> "NameError",
                   warnings |-> warn1 \o warn2,
                   np_sol |-> np_sol, np_core |-> np_core,
                   nr_pf |-> nr_pf, nr_core |-> nr_core]

NpointsInit ==
    \E settings \in SettingsSet, platePatch \in BOOLEAN,
       plateLocation \in {"W", "E"}, Enforce \in BOOLEAN :
        gn = [pc |-> "call", settings |-> settings, platePatch |-> platePatch,
              plateLocation |-> plateLocation, Enforce |-> Enforce,
              out |-> [kind |-> "pending"]]

CallGetNpoints ==
    /\ gn.pc = "call"
    /\ gn' = [gn EXCEPT !.pc = "done",
                        !.out = GetNpoints(gn.settings, gn.platePatch,
                                           gn.plateLocation, gn.Enforce)]
    /\ UNCHANGED <<lineVars, segVars, sg, cg, cp, gr, fl, extraVars>>

InitNpoints ==
    LineOff /\ SegOff /\ SubgridOff /\ ConcatOff /\ PatchesOff /\ GridOff /\ NpointsInit /\ FlipOff
    /\ ExtraOff

NextNpoints == CallGetNpoints

SpecNpoints == InitNpoints /\ [][NextNpoints]_vars


\* C15: in lenient mode (Enforce = False) GetNpoints on a configuration with
\* mismatched SOL/core poloidal counts or PF/core radial counts does not
\* fail: it warns, sets both mismatched counts to their minimum and returns
\* the (radial, poloidal) cell counts of the patch.
PoloidalMismatch(settings) ==
    Lookup(settings.np_sol, settings.np_global) # Lookup(settings.np_core, settings.np_global)

RadialMismatch(settings) ==
    Lookup(settings.nr_pf, settings.nr_global) # Lookup(settings.nr_core, settings.nr_global)

C15_LenientModeClampsAndReturns ==
    (/\ gn.pc = "done"
     /\ ~gn.Enforce
     /\ PoloidalMismatch(gn.settings) \/ RadialMismatch(gn.settings))
        => /\ gn.out.kind = "return"
           /\ gn.out.warnings # <<>>
           /\ gn.out.np_sol = gn.out.np_core
           /\ gn.out.nr_pf = gn.out.nr_core

(***************************************************************************)
(* construct_grid fills the patches of self.patches in order.  A filled    *)
(* patch holds a cell grid of np_cells by nr_cells cells; gr.corner maps a *)
(* patch and a corner name to the Point object that is the vertex of the   *)
(* cell grid at that corner, gr.pos maps a Point object to its position.   *)
(* Patch.make_subgrid(grid, np_cells, nr_cells, ...) and                   *)
(* Patch.adjust_corner(point, corner) are not part of the sources: the     *)
(* filled grid has the cell counts it is called with and its corner        *)
(* vertices are the end Points of the N and S boundaries; adjust_corner    *)
(* puts the Point it is given in the place of the corner vertex.           *)
(***************************************************************************)
NoObj == 0

\* The end Point of the N or S boundary at a corner.
GridCorner(q, c) ==
    CASE c = "NW" -> q.N.p[1]
      [] c = "NE" -> q.N.p[Len(q.N.p)]
      [] c = "SE" -> q.S.p[1]
      [] c = "SW" -> q.S.p[Len(q.S.p)]

\* The position of a Point made by construct_patches: a start point of an
\* X-point (off the X-point itself) or some other traced position.
TracedPos(st, id) ==
    IF id \in st.x1 THEN "xpt1_start"
    ELSE IF id \in st.x2 THEN "xpt2_start"
    ELSE "traced"

\* Mutation of Adjustments: the second statement of the F2 branch (line
\* 823) is dedented out of the elif chain and runs for every patch.
Adjustments_dedent(tag) ==
    CASE tag = "A2" -> << <<"xpt1", "SE">>, <<"xpt2", "NE">> >>
      [] tag = "A1" -> << <<"xpt1", "NE">>, <<"xpt2", "NE">> >>
      [] tag = "B2" -> << <<"xpt1", "SW">>, <<"xpt2", "NE">> >>
      [] tag = "B1" -> << <<"xpt1", "NW">>, <<"xpt2", "NE">> >>
      [] tag = "E2" -> << <<"xpt1", "SE">>, <<"xpt2", "NE">> >>
      [] tag = "E1" -> << <<"xpt1", "NE">>, <<"xpt2", "NE">> >>
      [] tag = "F3" -> << <<"xpt2", "SE">>, <<"xpt2", "NE">> >>
      [] tag = "F2" -> << <<"xpt1", "SW">>, <<"xpt2", "NE">> >>
      [] tag = "F1" -> << <<"xpt1", "NW">>, <<"xpt2", "NE">> >>
      [] tag = "G3" -> << <<"xpt2", "SW">>, <<"xpt2", "NE">> >>
      [] tag = "G2" -> << <<"xpt2", "NW">>, <<"xpt2", "NE">> >>
      [] tag = "H3" -> << <<"xpt2", "SE">>, <<"xpt2", "NE">> >>
      [] tag = "H2" -> << <<"xpt2", "NE">>, <<"xpt2", "NE">> >>
      [] OTHER      -> << <<"xpt2", "NE">> >>

\* SF45.AdjustPatch: the adjust_corner calls made for a patch tag, as
\* <<X-point, corner>>.
Adjustments(tag) ==
    CASE tag = "A2" -> << <<"xpt1", "SE">> >>
      [] tag = "A1" -> << <<"xpt1", "NE">> >>
      [] tag = "B2" -> << <<"xpt1", "SW">> >>
      [] tag = "B1" -> << <<"xpt1", "NW">> >>
      [] tag = "E2" -> << <<"xpt1", "SE">> >>
      [] tag = "E1" -> << <<"xpt1", "NE">> >>
      [] tag = "F3" -> << <<"xpt2", "SE">> >>
      [] tag = "F2" -> << <<"xpt1", "SW">>, <<"xpt2", "NE">> >>
      [] tag = "F1" -> << <<"xpt1", "NW">> >>
      [] tag = "G3" -> << <<"xpt2", "SW">> >>
      [] tag = "G2" -> << <<"xpt2", "NW">> >>
      [] tag = "H3" -> << <<"xpt2", "SE">> >>
      [] tag = "H2" -> << <<"xpt2", "NE">> >>
      [] OTHER      -> <<>>

\* patch.adjust_corner(point, corner): the corner vertex of the patch's cell
\* grid becomes the Point given.
adjust_corner(st, name, point, corner) ==
    [st EXCEPT !.corner[<<name, corner>>] = point]

RECURSIVE AdjustAll(_, _, _, _)
AdjustAll(st, name, adj, first) ==
    IF adj = <<>> THEN st
    ELSE LET point == IF Head(adj)[1] = "xpt1" THEN first ELSE first + 1
         IN  AdjustAll(adjust_corner(st, name, point, Head(adj)[2]),
                       name, Tail(adj), first)

\* SF45.AdjustPatch(patch): xpt1 and xpt2 are new Points at the centres of
\* the two X-points (lines 803-804); the tag of a patch is its name.
AdjustPatch(st, name) ==
    LET xpt1 == st.next
        xpt2 == st.next + 1
        st1  == [st EXCEPT !.next = st.next + 2,
                           !.pos = (xpt1 :> "xpt1") @@ (xpt2 :> "xpt2") @@ st.pos]
    IN  AdjustAll(st1, name, Adjustments(name), xpt1)

\* Line 867: the cell counts passed to make_subgrid.
CellCounts(settings) == [nr |-> settings.nr_global, np |-> settings.np_global]

\* The argument ListPatches: the string 'all' or a list of patch names.
AllPatches == [all |-> TRUE, names |-> {}]

NamedPatches(names) == [all |-> FALSE, names |-> names]

\* Mutation of Selected: the test of the names is left out.
Selected_every(st, name) == st.ListPatches.all \/ ~st.ListPatches.all

\* Line 865: (ListPatches == 'all' and patch not in self.CurrentListPatch)
\* or (ListPatches != 'all' and name in ListPatches).  CurrentListPatch is
\* keyed by patch name and patch is the Patch object, which is never equal
\* to a key: the first test is true for every patch.
Selected(st, name) ==
    \/ st.ListPatches.all
    \/ ~st.ListPatches.all /\ name \in st.ListPatches.names

Unfilled == [nr |-> 0, np |-> 0]

\* construct_grid is called on the patch set construct_patches has stored.
GridInit ==
    \E built \in {PatchesBuilt} :
        \E settings \in SettingsSet, Enforce \in BOOLEAN :
            gr = [pc |-> "loop", k |-> 1, settings |-> settings, Enforce |-> Enforce,
                  ListPatches |-> AllPatches, CurrentListPatch |-> {},
                  patches |-> built.patches, x1 |-> built.x1, x2 |-> built.x2,
                  filled |-> [n \in PatchNames |-> Unfilled],
                  corner |-> [t \in PatchNames \X CornerNames |-> NoObj],
                  pos |-> <<>>, next |-> built.next,
                  exc |-> "none", failed |-> "", reported |-> ""]

GridPatch == gr.patches[gr.k]

\* Lines 857-870 for the patch at gr.k: the counts are read from the global
\* settings and make_subgrid fills the patch.
GridFill ==
    /\ gr.pc = "loop"
    /\ Selected(gr, GridPatch.patchName)
    /\ LET name == GridPatch.patchName
           ids  == [c \in CornerNames |-> GridCorner(GridPatch, c)]
       IN  gr' = [gr EXCEPT
                    !.pc = "adjust",
                    !.filled[name] = CellCounts(gr.settings),
                    !.corner = [t \in PatchNames \X CornerNames |->
                                   IF t[1] = name THEN ids[t[2]] ELSE gr.corner[t]],
                    !.pos = [id \in {ids[c] : c \in CornerNames} |-> TracedPos(gr, id)]
                                @@ gr.pos]
    /\ UNCHANGED <<lineVars, segVars, sg, cg, cp, gn, fl, extraVars>>

\* make_subgrid raises (a trace or a spline fit fails): nothing in
\* construct_grid catches it and the call ends.
GridFillFails ==
    /\ gr.pc = "loop"
    /\ Selected(gr, GridPatch.patchName)
    /\ gr' = [gr EXCEPT !.pc = "raised", !.exc = "GeometryError",
                        !.failed = GridPatch.patchName]
    /\ UNCHANGED <<lineVars, segVars, sg, cg, cp, gn, fl, extraVars>>

\* Lines 871-873 and the loop head: AdjustPatch, then the next patch.
GridAdjust ==
    /\ gr.pc = "adjust"
    /\ LET name == GridPatch.patchName
           st   == AdjustPatch(gr, name)
       IN  gr' = [st EXCEPT
                    !.CurrentListPatch = gr.CurrentListPatch \cup {name},
                    !.k = gr.k + 1,
                    !.pc = IF gr.k = Len(PatchOrder) THEN "done" ELSE "loop"]
    /\ UNCHANGED <<lineVars, segVars, sg, cg, cp, gn, fl, extraVars>>

InitGrid ==
    LineOff /\ SegOff /\ SubgridOff /\ ConcatOff /\ PatchesOff /\ GridInit /\ NpointsOff /\ FlipOff
    /\ ExtraOff

NextGrid == GridFill \/ GridFillFails \/ GridAdjust

SpecGrid == InitGrid /\ [][NextGrid]_vars


(***************************************************************************)
(* Properties of construct_grid                                            *)
(***************************************************************************)
\* The position of the vertex at a corner of a patch's cell grid.
CornerPos(st, t) ==
    IF st.corner[t] = NoObj THEN "none" ELSE st.pos[st.corner[t]]

\* C11: AdjustPatch moves only the designated corner of the patch it is
\* called on, the corner that lies at an X-point, to that X-point; every
\* other corner of the patch, every corner of every other patch and every
\* Point of a boundary shared with another patch stay as they are.
C11_AdjustMovesOnlyDesignatedCorner ==
    [][gr.pc = "adjust" =>
          /\ \A t \in PatchNames \X CornerNames :
                CornerPos(gr', t) # CornerPos(gr, t) =>
                    /\ t[1] = GridPatch.patchName
                    /\ \E x \in {"xpt1", "xpt2"} :
                          /\ <<t[1], t[2], x>> \in XCorners(gr)
                          /\ CornerPos(gr', t) = x
          /\ \A id \in DOMAIN gr.pos : gr'.pos[id] = gr.pos[id]
          /\ gr'.patches = gr.patches]_vars

\* Witness of C11: A2 and A1 are both snapped to xpt1; the Point at the end
\* of the boundary they share is the corner vertex of neither any more and
\* has kept its position.
C11_Witness ==
    /\ gr.pc = "loop"
    /\ gr.k = 4
    /\ CornerPos(gr, <<"A2", "SE">>) = "xpt1"
    /\ CornerPos(gr, <<"A1", "NE">>) = "xpt1"
    /\ CornerPos(gr, <<"A1", "NW">>) = "traced"
    /\ GridCorner(PatchOf(gr, "A2"), "SE") = GridCorner(PatchOf(gr, "A1"), "NE")
    /\ gr.pos[GridCorner(PatchOf(gr, "A2"), "SE")] = "xpt1_start"
    /\ gr.corner[<<"A2", "SE">>] # gr.corner[<<"A1", "NE">>]

\* C12: after construct_grid has filled all patches, every patch with a
\* corner at a start point of xpt1 or xpt2 has that corner at the X-point.
C12_XPointCornersSnapped ==
    gr.pc = "done" =>
        \A t \in XCorners(gr) : CornerPos(gr, <<t[1], t[2]>>) = t[3]

Mismatch(settings) == PoloidalMismatch(settings) \/ RadialMismatch(settings)

\* C14: with Enforce = True a configuration whose SOL and core poloidal
\* counts differ, or whose PF and core radial counts differ, makes
\* construct_grid fail with an error, and no patch is filled.
C14_MismatchIsFatal ==
    (gr.pc # "off" /\ gr.Enforce /\ Mismatch(gr.settings)) =>
        /\ \A n \in PatchNames : gr.filled[n] = Unfilled
        /\ gr.pc \in {"loop", "raised"}
        /\ gr.pc = "raised" => gr.exc = "ValueError"

\* The region of a patch: the core patches lie on the core boundary, the
\* private-flux patches below the two X-points, the others in the SOL.
RegionOf(name) ==
    IF name \in {"B1", "C1", "D1", "E1"} THEN "core"
    ELSE IF name \in {"A1", "F1", "I1", "G1", "G2", "H1", "H2"} THEN "pf"
    ELSE "sol"

\* The cell counts configured for a patch: the count of its region if set,
\* else the global count; the plate's local poloidal count on a plate patch.
ConfiguredCounts(settings, q) ==
    LET r == RegionOf(q.patchName)
    IN  [nr |-> CASE r = "core" -> Lookup(settings.nr_core, settings.nr_global)
                  [] r = "pf"   -> Lookup(settings.nr_pf, settings.nr_global)
                  [] r = "sol"  -> Lookup(settings.nr_sol, settings.nr_global),
         np |-> IF q.platePatch
                THEN (IF q.plateLocation = "W" THEN settings.np_local_W1
                      ELSE settings.np_local_E1)
                ELSE CASE r = "core" -> Lookup(settings.np_core, settings.np_global)
                       [] r = "pf"   -> Lookup(settings.np_pf, settings.np_global)
                       [] r = "sol"  -> Lookup(settings.np_sol, settings.np_global)]

\* C16: after construct_grid on a consistent configuration, the cell grid of
\* each patch has the poloidal and radial cell counts configured for it.
C16_GridHasConfiguredCounts ==
    (gr.pc = "done" /\ ~Mismatch(gr.settings)) =>
        \A k \in 1..Len(gr.patches) :
            gr.filled[gr.patches[k].patchName] =
                ConfiguredCounts(gr.settings, gr.patches[k])

DependsOn(n, m) ==
    \E nb \in Neighbours : (nb[1] = n /\ nb[3] = m) \/ (nb[1] = m /\ nb[3] = n)

\* C17: a failure while filling one patch aborts only that patch: when the
\* run has ended, every other patch that is not a neighbour of the failed
\* one is filled, and the failure is reported with the name of the patch.
C17_FailureAbortsOnlyOnePatch ==
    (gr.pc \in {"done", "raised"} /\ gr.failed # "") =>
        /\ \A n \in PatchNames :
              (n # gr.failed /\ ~DependsOn(n, gr.failed)) => gr.filled[n] # Unfilled
        /\ gr.reported = gr.failed


(***************************************************************************)
(* Properties of CheckPatches                                              *)
(***************************************************************************)
\* The patches whose W or E boundary is a piece of a plate line (lines
\* 561-610).
PlateAdjacent(st) ==
    {n \in PatchNames :
        (n \o "_W") \in DOMAIN st.plateOf \/ (n \o "_E") \in DOMAIN st.plateOf}

\* C18: CheckPatches runs the plate check on every patch that takes its W or
\* E boundary from a plate line, and on no other patch.
C18_CheckCoversPlatePatches ==
    cp.pc = "checked" =>
        {cp.checked[k].patchName : k \in 1..Len(cp.checked)} = PlateAdjacent(cp)


(***************************************************************************)
(* SF45.concat_grid, lines 199-207: the flip of the regional arrays.  The  *)
(* arrays are indexed [poloidal][radial][corner], the corner index in the  *)
(* order of Coor (lines 157-161).  The specification starts from arrays    *)
(* that hold vertex coordinates and runs the four loops.                   *)
(***************************************************************************)
MaxPol == 2
MaxRad == 3
MaxVal == 1

\* The x and y entries of a cell centred at c, in the order of Coor.
CellX(c) == <<c, c - 1, c + 1, c - 1, c + 1>>
CellY(c) == <<c, c - 1, c - 1, c + 1, c + 1>>

\* The regional arrays of a grid with npl poloidal rows and radial
\* positions xs: row i holds the cells centred at 3 * xs[j] + 10 * i.
ArrayX(npl, xs) == [i \in 1..npl |-> [j \in 1..Len(xs) |-> CellX(3 * xs[j] + 10 * i)]]
ArrayY(npl, xs) == [i \in 1..npl |-> [j \in 1..Len(xs) |-> CellY(3 * xs[j] + 10 * i)]]

\* Mutation: the slice reverses the corner axis of each entry.
FlipRow_corners(row) == [j \in 1..Len(row) |-> Rev(row[j])]

\* row[::-1] on the two-dimensional slice rm[i], of shape (nr_total, 5): the
\* slice runs over the first axis of row, the radial index.
FlipRow(row) == Rev(row)

FlipInit ==
    \E np1 \in 1..MaxPol, np2 \in 1..MaxPol, nr \in 1..MaxRad :
        \E xs \in [1..nr -> 0..MaxVal] :
            fl = [pc |-> "rm1", i |-> 1,
                  rm1 |-> ArrayX(np1, xs), zm1 |-> ArrayY(np1, xs),
                  rm2 |-> ArrayX(np2, xs), zm2 |-> ArrayY(np2, xs),
                  before |-> [rm1 |-> ArrayX(np1, xs), zm1 |-> ArrayY(np1, xs),
                              rm2 |-> ArrayX(np2, xs), zm2 |-> ArrayY(np2, xs)]]

\* Line 200-201: for i in range(len(rm1)): rm1[i] = rm1[i][::-1]
Flip_rm1 ==
    /\ fl.pc = "rm1"
    /\ fl' = IF fl.i > Len(fl.rm1)
             THEN [fl EXCEPT !.pc = "zm1", !.i = 1]
             ELSE [fl EXCEPT !.rm1[fl.i] = FlipRow(fl.rm1[fl.i]), !.i = fl.i + 1]
    /\ UNCHANGED <<lineVars, segVars, sg, cg, cp, gr, gn, extraVars>>

\* Line 202-203: for i in range(len(zm1)): zm1[i] = zm1[i][::-1]
Flip_zm1 ==
    /\ fl.pc = "zm1"
    /\ fl' = IF fl.i > Len(fl.zm1)
             THEN [fl EXCEPT !.pc = "rm2", !.i = 1]
             ELSE [fl EXCEPT !.zm1[fl.i] = FlipRow(fl.zm1[fl.i]), !.i = fl.i + 1]
    /\ UNCHANGED <<lineVars, segVars, sg, cg, cp, gr, gn, extraVars>>

\* Line 204-205: for i in range(len(rm2)): rm2[i] = rm2[i][::-1]
Flip_rm2 ==
    /\ fl.pc = "rm2"
    /\ fl' = IF fl.i > Len(fl.rm2)
             THEN [fl EXCEPT !.pc = "zm2", !.i = 1]
             ELSE [fl EXCEPT !.rm2[fl.i] = FlipRow(fl.rm2[fl.i]), !.i = fl.i + 1]
    /\ UNCHANGED <<lineVars, segVars, sg, cg, cp, gr, gn, extraVars>>

\* Line 206-207: for i in range(len(zm2)): zm2[i] = zm2[i][::-1]
Flip_zm2 ==
    /\ fl.pc = "zm2"
    /\ fl' = IF fl.i > Len(fl.zm2)
             THEN [fl EXCEPT !.pc = "done", !.i = 1]
             ELSE [fl EXCEPT !.zm2[fl.i] = FlipRow(fl.zm2[fl.i]), !.i = fl.i + 1]
    /\ UNCHANGED <<lineVars, segVars, sg, cg, cp, gr, gn, extraVars>>

InitFlip ==
    LineOff /\ SegOff /\ SubgridOff /\ ConcatOff /\ PatchesOff /\ GridOff /\ NpointsOff /\ FlipInit
    /\ ExtraOff

NextFlip == Flip_rm1 \/ Flip_zm1 \/ Flip_rm2 \/ Flip_zm2

SpecFlip == InitFlip /\ [][NextFlip]_vars

(***************************************************************************)
(* Properties of the flip                                                  *)
(***************************************************************************)
Flipped == <<fl.rm1, fl.zm1, fl.rm2, fl.zm2>>

Unflipped == <<fl.before.rm1, fl.before.zm1, fl.before.rm2, fl.before.zm2>>

VisitedSlots == {<<e.region, e.jyp, e.ixp>> : e \in cg.written}

\* C19: when concat_grid has run, entries have been written from as many
\* slots of the patch matrix as construct_patches produces patches (a slot
\* holds one patch), and every vertex of every cell of each of them has been
\* written to the arrays of its region.
C19_EveryPatchVisited ==
    cg.pc \in {"raised", "done"} =>
        /\ Cardinality(VisitedSlots) = Len(PatchOrder)
        /\ \A slot \in VisitedSlots :
              \A jyl \in 0..(RadCells(slot[2], slot[3]) - 1),
                 ixl \in 0..(PolCells(slot[2], slot[3]) - 1) :
                  \A ind \in 0..4 :
                      \E e \in cg.written :
                          /\ <<e.region, e.jyp, e.ixp>> = slot
                          /\ e.jyl = jyl /\ e.ixl = ixl /\ e.ind = ind


(***************************************************************************)
(* geometry.Line caches.  Line.__init__ stores the coordinate lists xval   *)
(* and yval and the length of the point list it is given; reverse and the  *)
(* local function limiter_split of SF45.construct_patches assign self.p    *)
(* afterwards, and fluff reads xval and yval.  The component is a chain of *)
(* calls on one Line: each call is made on the current object and the      *)
(* chain continues on the object the call returns; fluff returns arrays    *)
(* and the chain stays on its receiver.  lc.last records the last call.    *)
(***************************************************************************)
MaxFluff == 2   \* largest argument num of fluff

\* Mutation of limiter_split: the rotation keeps only limiter.p[start_index:].
limiter_split_tail(start, end, limiter) ==
    LET p           == limiter.p
        start_index == find_split_index(p, start)
        end_index   == find_split_index(p, end)
    IN  [self |-> IF end_index <= start_index
                  THEN [limiter EXCEPT !.p = SubSeq(p, start_index, Len(p))]
                  ELSE limiter,
         ret  |-> <<RetSelf>>]

\* limiter_split(start, end, limiter) of SF45.construct_patches (lines
\* 248-253): the receiver of the assignment is the limiter, which is also
\* returned.  The indices are 1-based here: limiter.p[start_index:] is
\* SubSeq(p, start_index, Len(p)) and limiter.p[:start_index] the samples
\* before start_index.
limiter_split(start, end, limiter) ==
    LET p           == limiter.p
        start_index == find_split_index(p, start)
        end_index   == find_split_index(p, end)
    IN  [self |-> IF end_index <= start_index
                  THEN [limiter EXCEPT !.p = SubSeq(p, start_index, Len(p))
                                             \o SubSeq(p, 1, start_index - 1)]
                  ELSE limiter,
         ret  |-> <<RetSelf>>]

\* np.linspace(a, b, num, endpoint = False): a + k * (b - a) / num for
\* k = 0 .. num-1.  Samples are kept in units of 1/num, so that the value
\* a + k * (b - a) / num is the integer num * a + k * (b - a).
linspace(a, b, num) == [k \in 1..num |-> num * a + (k - 1) * (b - a)]

\* The loop of fluff over one coordinate list, from index i on.
RECURSIVE fluff_loop(_, _, _)
fluff_loop(val, num, i) ==
    IF i > Len(val) - 1 THEN <<>>
    ELSE linspace(val[i], val[i + 1], num) \o fluff_loop(val, num, i + 1)

\* Line.fluff(num): (x_fluff, y_fluff), in units of 1/num
fluff(self, num) ==
    [x_fluff |-> Append(fluff_loop(self.xval, num, 1), num * self.xval[Len(self.xval)]),
     y_fluff |-> Append(fluff_loop(self.yval, num, 1), num * self.yval[Len(self.yval)])]

NoFluff == [x_fluff |-> <<>>, y_fluff |-> <<>>]

CacheInit ==
    \E s \in InputLines :
        lc = [pc |-> "run", cur |-> Line(s), n |-> 0,
              last |-> [op |-> "new", pre |-> Line(s), start |-> 0, end |-> 0,
                        num |-> 0, out |-> NoFluff]]

\* The state after a call with result r on lc.cur.
CacheCall(op, r, start, end) ==
    [lc EXCEPT !.cur = IF r.ret[1].ref = "self" THEN r.self ELSE r.ret[1].obj,
               !.n = lc.n + 1,
               !.last = [op |-> op, pre |-> lc.cur, start |-> start, end |-> end,
                         num |-> 0, out |-> NoFluff]]

othersCache == <<lineVars, segVars, sg, cg, topoVars, sg2, rg, bp, rf>>

CacheReverse ==
    /\ lc.pc = "run" /\ lc.n < MaxCalls
    /\ lc' = CacheCall("reverse", reverse(lc.cur), 0, 0)
    /\ UNCHANGED othersCache

CacheReverseCopy ==
    /\ lc.pc = "run" /\ lc.n < MaxCalls
    /\ lc' = CacheCall("reverse_copy", reverse_copy(lc.cur), 0, 0)
    /\ UNCHANGED othersCache

CacheStraighten ==
    /\ lc.pc = "run" /\ lc.n < MaxCalls
    /\ lc' = CacheCall("straighten", straighten(lc.cur), 0, 0)
    /\ UNCHANGED othersCache

CacheLimiterSplit ==
    /\ lc.pc = "run" /\ lc.n < MaxCalls
    /\ \E start \in PointIds, end \in PointIds :
          lc' = CacheCall("limiter_split", limiter_split(start, end, lc.cur), start, end)
    /\ UNCHANGED othersCache

CacheFluff ==
    /\ lc.pc = "run" /\ lc.n < MaxCalls
    /\ \E num \in 1..MaxFluff :
          lc' = [lc EXCEPT !.n = lc.n + 1,
                           !.last = [op |-> "fluff", pre |-> lc.cur, start |-> 0,
                                     end |-> 0, num |-> num,
                                     out |-> fluff(lc.cur, num)]]
    /\ UNCHANGED othersCache

InitCache ==
    LineOff /\ SegOff /\ SubgridOff /\ ConcatOff /\ TopoOff /\ CacheInit
    /\ Subgrid2Off /\ RegridOff /\ BoundaryOff /\ RootFinderOff

NextCache ==
    \/ CacheReverse
    \/ CacheReverseCopy
    \/ CacheStraighten
    \/ CacheLimiterSplit
    \/ CacheFluff

SpecCache == InitCache /\ [][NextCache]_vars

(***************************************************************************)
(* Properties of the Line caches                                           *)
(***************************************************************************)
\* C21: fluff(num) on a Line of n points returns (n-1)*num + 1 samples; the
\* sample at position (i-1)*num is the i-th point of the Line (so the first
\* and the last sample are its end points) and the k-th sample after it is
\* the point k/num of the way to the next point.
C21_FluffInterpolates ==
    (lc.pc = "run" /\ lc.last.op = "fluff") =>
        LET p   == lc.last.pre.p
            n   == Len(p)
            num == lc.last.num
            xf  == lc.last.out.x_fluff
            yf  == lc.last.out.y_fluff
        IN  /\ Len(xf) = (n - 1) * num + 1
            /\ Len(yf) = (n - 1) * num + 1
            /\ \A i \in 1..n :
                  /\ xf[(i - 1) * num + 1] = num * PX(p[i])
                  /\ yf[(i - 1) * num + 1] = num * PY(p[i])
            /\ \A i \in 1..(n - 1), k \in 1..(num - 1) :
                  /\ xf[(i - 1) * num + 1 + k] = num * PX(p[i]) + k * (PX(p[i + 1]) - PX(p[i]))
                  /\ yf[(i - 1) * num + 1 + k] = num * PY(p[i]) + k * (PY(p[i + 1]) - PY(p[i]))

\* The sample index of a point after and before a limiter_split call.
IndexAfter(point) == find_split_index(lc.cur.p, point)

IndexBefore(point) == find_split_index(lc.last.pre.p, point)

\* The point sequence is the one before the call, rotated so that the
\* sample at index k comes first.
RotatedTo(k) ==
    LET p == lc.last.pre.p
        q == lc.cur.p
    IN  /\ Len(q) = Len(p)
        /\ \A j \in 1..Len(p) : q[j] = p[((k - 1 + j - 1) % Len(p)) + 1]

AfterLimiterSplit == lc.pc = "run" /\ lc.last.op = "limiter_split"

C27_CachesAgreeWithPoints ==
    lc.pc = "run" =>
        /\ Len(lc.cur.xval) = Len(lc.cur.p)
        /\ Len(lc.cur.yval) = Len(lc.cur.p)
        /\ \A i \in 1..Len(lc.cur.p) :
              /\ lc.cur.xval[i] = PX(lc.cur.p[i])
              /\ lc.cur.yval[i] = PY(lc.cur.p[i])
        /\ lc.cur.length = calc_length(lc.cur.p)


(***************************************************************************)
(* geometry.Patch.make_subgrid2(grid, num)                                 *)
(*                                                                         *)
(* sg2 holds the locals of one call, as sg does for make_subgrid: the      *)
(* Point objects it creates (pts, indexed by object identity, with their   *)
(* logical coordinates <<c, r>>), r_line, next_r, the index i of the loop  *)
(* over bounds, NW_start, the Lines N and S of the cell in the making,     *)
(* cell_list, and the patch attribute cells.  The four vertex lists hold   *)
(* num Points each and bounds holds num chords, bounds[c] from             *)
(* N_vertices[c] to S_vertices[c].                                         *)
(***************************************************************************)
MaxNum2 == 5   \* largest argument num of make_subgrid2

Subgrid2Init ==
    \E num \in 1..MaxNum2 :
        sg2 = [pc |-> "call", num |-> num, pts |-> <<>>, r_line |-> <<>>,
               next_r |-> <<>>, i |-> 0, NW_start |-> 0, N |-> <<>>, S |-> <<>>,
               cell_list |-> <<>>, cells |-> "unset", exc |-> "none"]

othersSubgrid2 == <<lineVars, segVars, sg, cg, topoVars, lc, rg, bp, rf>>

\* Lines 453-521: the spline fits, the anchor vertices (splev(i / (num-1))
\* divides by zero for num = 1) and r_line: W_vertices reversed, without
\* its first element.  pts[j] is W_vertices[j-1] for j <= num and
\* N_vertices[j-num-1] after that.
Subgrid2Setup ==
    /\ sg2.pc = "call"
    /\ sg2' = IF sg2.num = 1
              THEN [sg2 EXCEPT !.pc = "raised", !.exc = "ZeroDivisionError"]
              ELSE [sg2 EXCEPT
                      !.pc = "loop",
                      !.pts = [j \in 1..(2 * sg2.num) |->
                                  IF j <= sg2.num THEN <<0, j - 1>>
                                  ELSE <<j - sg2.num - 1, sg2.num - 1>>],
                      !.r_line = Tail(Rev([j \in 1..sg2.num |-> j])),
                      !.i = 0,
                      !.NW_start = sg2.num + 1]
    /\ UNCHANGED othersSubgrid2

\* splprep raises on a degenerate boundary.
Subgrid2SetupFails ==
    /\ sg2.pc = "call"
    /\ sg2' = [sg2 EXCEPT !.pc = "raised", !.exc = "spline"]
    /\ UNCHANGED othersSubgrid2

\* The while loop of lines 526-532 has a cell to make.
InWhileLoop ==
    /\ sg2.pc = "loop"
    /\ sg2.i < sg2.num
    /\ sg2.r_line # <<>>

\* make_cell: N = draw_line(NW_vert, bounds[i + 1]); bounds has no element
\* i + 1 when i is the last index.
Trace2North ==
    /\ InWhileLoop
    /\ sg2.N = <<>>
    /\ sg2' = IF sg2.i + 1 > sg2.num - 1
              THEN [sg2 EXCEPT !.pc = "raised", !.exc = "IndexError"]
              ELSE LET t == draw_line(sg2.pts, sg2.NW_start, sg2.i + 1)
                   IN  [sg2 EXCEPT !.pts = t.pts, !.N = t.line]
    /\ UNCHANGED othersSubgrid2

\* make_cell: S = draw_line(SW_vert, endLine).reverse_copy(), SW_vert = r_line[0]
Trace2South ==
    /\ InWhileLoop
    /\ sg2.N # <<>>
    /\ sg2.S = <<>>
    /\ LET t == draw_line(sg2.pts, sg2.r_line[1], sg2.i + 1)
       IN  sg2' = [sg2 EXCEPT !.pts = t.pts, !.S = Rev(t.line)]
    /\ UNCHANGED othersSubgrid2

\* A trace that does not converge raises out of make_subgrid2.
Trace2Fails ==
    /\ InWhileLoop
    /\ sg2.S = <<>>
    /\ sg2' = [sg2 EXCEPT !.pc = "raised", !.exc = "trace"]
    /\ UNCHANGED othersSubgrid2

\* Lines 527-532: r_line.pop(0); NW_start = new_cell.S.p[-1]; the cell is
\* appended to cell_list and the end of its N Line to next_r.
Append2Cell ==
    /\ InWhileLoop
    /\ sg2.N # <<>>
    /\ sg2.S # <<>>
    /\ LET new_cell == Cell(sg2.N, sg2.S)
       IN  sg2' = [sg2 EXCEPT !.r_line = Tail(sg2.r_line),
                              !.NW_start = new_cell.S[Len(new_cell.S)],
                              !.cell_list = Append(sg2.cell_list, new_cell),
                              !.next_r = Append(sg2.next_r, new_cell.N[Len(new_cell.N)]),
                              !.N = <<>>,
                              !.S = <<>>]
    /\ UNCHANGED othersSubgrid2

\* Lines 533-537, the end of a pass of the for loop: r_line = next_r;
\* r_line.pop(0) raises IndexError on an empty list.  After the last pass
\* self.cells = cell_list; otherwise the next pass starts with
\* NW_start = N_vertices[i] and an empty next_r.
End2Row ==
    /\ sg2.pc = "loop"
    /\ sg2.i < sg2.num
    /\ sg2.r_line = <<>>
    /\ sg2' = IF sg2.next_r = <<>>
              THEN [sg2 EXCEPT !.pc = "raised", !.exc = "IndexError"]
              ELSE IF sg2.i + 1 = sg2.num
                   THEN [sg2 EXCEPT !.pc = "done", !.r_line = Tail(sg2.next_r),
                                    !.i = sg2.i + 1, !.cells = sg2.cell_list]
                   ELSE [sg2 EXCEPT !.r_line = Tail(sg2.next_r),
                                    !.next_r = <<>>,
                                    !.i = sg2.i + 1,
                                    !.NW_start = sg2.num + 1 + sg2.i + 1]
    /\ UNCHANGED othersSubgrid2

InitSubgrid2 ==
    LineOff /\ SegOff /\ SubgridOff /\ ConcatOff /\ TopoOff /\ CacheOff
    /\ Subgrid2Init /\ RegridOff /\ BoundaryOff /\ RootFinderOff

NextSubgrid2 ==
    \/ Subgrid2Setup
    \/ Subgrid2SetupFails
    \/ Trace2North
    \/ Trace2South
    \/ Trace2Fails
    \/ Append2Cell
    \/ End2Row

SpecSubgrid2 == InitSubgrid2 /\ [][NextSubgrid2]_vars

(***************************************************************************)
(* Properties of make_subgrid2                                             *)
(***************************************************************************)
\* C26: for num >= 2, a call of make_subgrid2(grid, num) in which the
\* spline fits and the traces succeed completes, and the patch's cells list
\* then holds num x num Cell objects.
C26_Subgrid2HasNumTimesNumCells ==
    (sg2.pc \in {"done", "raised"} /\ sg2.num >= 2
        /\ sg2.exc \notin {"spline", "trace"}) =>
        /\ sg2.pc = "done"
        /\ Len(sg2.cells) = sg2.num * sg2.num


(***************************************************************************)
(* Repeated calls of SF45.construct_grid on one SF45 object.  rg.cells     *)
(* maps a patch name to the call that filled the patch last (0: the patch  *)
(* has no cells), rg.adjusted to the call in which AdjustPatch completed   *)
(* on it last, rg.CurrentListPatch is the set of keys of                   *)
(* self.CurrentListPatch.  For the call in progress or just ended,         *)
(* rg.invoked holds the patches make_subgrid has been called on and        *)
(* rg.before the cells and the keys as the call found them.                *)
(***************************************************************************)
MaxGridCalls == 2   \* most calls of construct_grid on one object

\* The lists of patch names passed as ListPatches.
NamedLists == {{"A3"}, {"A1", "F2"}}

othersRegrid == <<lineVars, segVars, sg, cg, topoVars, lc, sg2, bp, rf>>

\* Lines 24-42: a new SF45 object; construct_patches has stored the patches.
RegridInit ==
    rg = [pc |-> "idle", calls |-> 0, k |-> 1,
          ListPatches |-> AllPatches, RestartScratch |-> FALSE,
          CurrentListPatch |-> {},
          cells |-> [n \in PatchNames |-> 0],
          adjusted |-> [n \in PatchNames |-> 0],
          invoked |-> {},
          before |-> [cells |-> [n \in PatchNames |-> 0], CurrentListPatch |-> {}],
          exc |-> "none", failed |-> ""]

\* Lines 836-856: a call of construct_grid; RestartScratch empties
\* self.CurrentListPatch.
RegridCall ==
    /\ rg.pc = "idle"
    /\ rg.calls < MaxGridCalls
    /\ \E lp \in {AllPatches} \cup {NamedPatches(l) : l \in NamedLists},
          RestartScratch \in BOOLEAN :
          rg' = [rg EXCEPT
                   !.pc = "loop", !.calls = rg.calls + 1, !.k = 1,
                   !.ListPatches = lp, !.RestartScratch = RestartScratch,
                   !.CurrentListPatch = IF RestartScratch THEN {} ELSE rg.CurrentListPatch,
                   !.invoked = {},
                   !.before = [cells |-> rg.cells,
                               CurrentListPatch |-> rg.CurrentListPatch],
                   !.exc = "none", !.failed = ""]
    /\ UNCHANGED othersRegrid

RegridName == PatchOrder[rg.k]

\* The loop goes on to the next patch, or the call returns.
RegridAdvance(st) ==
    [st EXCEPT !.k = IF rg.k = Len(PatchOrder) THEN 1 ELSE rg.k + 1,
               !.pc = IF rg.k = Len(PatchOrder) THEN "idle" ELSE "loop"]

\* Line 865: the test is false, the patch is passed over.
RegridSkip ==
    /\ rg.pc = "loop"
    /\ ~Selected(rg, RegridName)
    /\ rg' = RegridAdvance(rg)
    /\ UNCHANGED othersRegrid

\* Lines 866-870: make_subgrid returns; it assigns the cells of the patch as
\* its last statement (geometry.py, line 401).
RegridFill ==
    /\ rg.pc = "loop"
    /\ Selected(rg, RegridName)
    /\ rg' = [rg EXCEPT !.pc = "adjust",
                        !.cells[RegridName] = rg.calls,
                        !.invoked = rg.invoked \cup {RegridName}]
    /\ UNCHANGED othersRegrid

\* Lines 866-870: make_subgrid raises before it assigns the cells; nothing
\* in construct_grid catches the exception and the call ends.
RegridFillFails ==
    /\ rg.pc = "loop"
    /\ Selected(rg, RegridName)
    /\ rg' = [rg EXCEPT !.pc = "idle", !.k = 1,
                        !.invoked = rg.invoked \cup {RegridName},
                        !.exc = "GeometryError", !.failed = RegridName]
    /\ UNCHANGED othersRegrid

\* Mutation of RegridAdjust: the patch is recorded but AdjustPatch is not run.
RegridAdjust_skipped ==
    /\ rg.pc = "adjust"
    /\ rg' = RegridAdvance([rg EXCEPT
                              !.CurrentListPatch = rg.CurrentListPatch \cup {RegridName}])
    /\ UNCHANGED othersRegrid

\* Lines 871-873: AdjustPatch, plot_subgrid, then
\* self.CurrentListPatch[name] = patch.
RegridAdjust ==
    /\ rg.pc = "adjust"
    /\ rg' = RegridAdvance([rg EXCEPT
                              !.adjusted[RegridName] = rg.calls,
                              !.CurrentListPatch = rg.CurrentListPatch \cup {RegridName}])
    /\ UNCHANGED othersRegrid

InitRegrid ==
    LineOff /\ SegOff /\ SubgridOff /\ ConcatOff /\ TopoOff /\ CacheOff
    /\ Subgrid2Off /\ RegridInit /\ BoundaryOff /\ RootFinderOff

NextRegrid ==
    \/ RegridCall
    \/ RegridSkip
    \/ RegridFill
    \/ RegridFillFails
    \/ RegridAdjust

SpecRegrid == InitRegrid /\ [][NextRegrid]_vars

(***************************************************************************)
(* Properties of repeated construct_grid calls                             *)
(***************************************************************************)
CallEnded == rg.pc = "idle" /\ rg.calls > 0

CallCompleted == CallEnded /\ rg.exc = "none"

C23_FailedPatchIsNotRecorded ==
    rg.pc # "off" =>
        /\ \A n \in rg.CurrentListPatch :
              /\ rg.cells[n] > 0
              /\ rg.adjusted[n] > 0
        /\ (CallEnded /\ rg.exc # "none") =>
              /\ rg.cells[rg.failed] = rg.before.cells[rg.failed]
              /\ (rg.failed \in rg.CurrentListPatch) =>
                     /\ ~rg.RestartScratch
                     /\ rg.failed \in rg.before.CurrentListPatch

\* Witness of C23: the first call failed on B3; the three patches before it
\* are recorded, B3 has no cells and is not recorded.
C23_Witness ==
    /\ CallEnded
    /\ rg.calls = 1
    /\ rg.failed = "B3"
    /\ rg.cells["B3"] = 0
    /\ rg.CurrentListPatch = {"A3", "A2", "A1"}

\* C24: a call with ListPatches = 'all' and RestartScratch = False calls
\* make_subgrid on no patch that is recorded in CurrentListPatch; with
\* RestartScratch = True a call that completes has refilled every patch.
C24_RecordedPatchesNotRefilled ==
    (CallEnded /\ rg.ListPatches.all) =>
        IF rg.RestartScratch
        THEN CallCompleted => rg.invoked = PatchNames
        ELSE rg.invoked \cap rg.before.CurrentListPatch = {}


(***************************************************************************)
(* SF45.GetBoundaryPoints and SF45.SetPatchBoundaryPoints.  bp.vertices    *)
(* holds, for every patch of self.patches, the vertex lists N_vertices,    *)
(* S_vertices, E_vertices and W_vertices; a vertex list is the sequence of *)
(* its point ids.  bp.BoundaryPoints is the dict BoundaryPoints of the     *)
(* patch SetPatchBoundaryPoints was called on.                             *)
(***************************************************************************)
MaxVertex == 1   \* vertex ids range over 0..MaxVertex

BoundaryPatches == <<"A", "B">>   \* self.patches, in order

Sides == {"N", "S", "E", "W"}

\* A returned value: None, or a vertex list.
NoneValue == [none |-> TRUE, v |-> <<>>]

ListValue(v) == [none |-> FALSE, v |-> v]

\* An argument AdjacentPatch: None, or the pair (PatchName, Boundary).
NoAdjacent == [none |-> TRUE, PatchName |-> "", Boundary |-> ""]

Adjacent(PatchName, Boundary) ==
    [none |-> FALSE, PatchName |-> PatchName, Boundary |-> Boundary]

AdjacentArgs ==
    {NoAdjacent} \cup
    {Adjacent(n, b) : n \in {"A", "B", "Z"}, b \in Sides \cup {"X"}}

\* Lines 734-748.
GetBoundaryPoints(patches, AdjacentPatch) ==
    IF ~AdjacentPatch.none
    THEN LET PatchName == AdjacentPatch.PatchName
             Boundary == AdjacentPatch.Boundary
         IN  IF PatchName \in DOMAIN patches
             THEN CASE Boundary = "S" -> ListValue(patches[PatchName].S)
                    [] Boundary = "N" -> ListValue(patches[PatchName].N)
                    [] Boundary = "E" -> ListValue(patches[PatchName].W)
                    [] Boundary = "W" -> ListValue(patches[PatchName].W)
                    [] OTHER -> NoneValue
             ELSE NoneValue
    ELSE NoneValue

\* The entries self.ConnexionMap may hold for a patch: None, or a dict from
\* the patch's sides to adjacent patches.
ConnexionEntries ==
    {[S \in {} |-> NoAdjacent]} \cup
    {[b \in {"E"} |-> Adjacent("B", "W")],
     [b \in {"W"} |-> Adjacent("B", "E")],
     [b \in {"N", "S"} |-> IF b = "N" THEN Adjacent("B", "S") ELSE NoAdjacent]}

BoundaryInit ==
    \E vs \in [{"A", "B"} -> [Sides -> 0..MaxVertex]] :
        bp = [pc |-> "run",
              vertices |-> [n \in {"A", "B"} |->
                              [N |-> <<vs[n]["N"]>>, S |-> <<vs[n]["S"]>>,
                               E |-> <<vs[n]["E"]>>, W |-> <<vs[n]["W"]>>]],
              BoundaryPoints |-> [b \in Sides |-> NoneValue],
              called |-> FALSE,
              arg |-> NoAdjacent,
              ret |-> NoneValue]

othersBoundary == <<lineVars, segVars, sg, cg, topoVars, lc, sg2, rg, rf>>

\* A call of GetBoundaryPoints.
BoundaryGet ==
    /\ bp.pc = "run"
    /\ \E a \in AdjacentArgs :
          bp' = [bp EXCEPT !.called = TRUE, !.arg = a,
                           !.ret = GetBoundaryPoints(bp.vertices, a)]
    /\ UNCHANGED othersBoundary

\* Lines 727-732: SetPatchBoundaryPoints on patch A, whose entry of
\* ConnexionMap is cm.
BoundarySet ==
    /\ bp.pc = "run"
    /\ \E cm \in ConnexionEntries :
          bp' = [bp EXCEPT !.BoundaryPoints =
                     [b \in Sides |->
                        IF b \in DOMAIN cm
                        THEN GetBoundaryPoints(bp.vertices, cm[b])
                        ELSE bp.BoundaryPoints[b]]]
    /\ UNCHANGED othersBoundary

InitBoundary ==
    LineOff /\ SegOff /\ SubgridOff /\ ConcatOff /\ TopoOff /\ CacheOff
    /\ Subgrid2Off /\ RegridOff /\ BoundaryInit /\ RootFinderOff

NextBoundary ==
    \/ BoundaryGet
    \/ BoundarySet

SpecBoundary == InitBoundary /\ [][NextBoundary]_vars

\* The vertex list of side b of patch n.
SideVertices(n, b) ==
    CASE b = "N" -> bp.vertices[n].N
      [] b = "S" -> bp.vertices[n].S
      [] b = "E" -> bp.vertices[n].E
      [] b = "W" -> bp.vertices[n].W

\* C28: GetBoundaryPoints((name, side)) returns the vertex list of that side
\* of the named patch, for each of the four sides, and returns None only
\* when no adjacent patch is given.
C28_ReturnsNamedSide ==
    (bp.pc = "run" /\ bp.called) =>
        /\ (~bp.arg.none /\ bp.arg.PatchName \in DOMAIN bp.vertices
             /\ bp.arg.Boundary \in Sides) =>
               bp.ret = ListValue(SideVertices(bp.arg.PatchName, bp.arg.Boundary))
        /\ bp.ret.none => bp.arg.none


(***************************************************************************)
(* Root_Finder.RootFinder.  rf.handlers is the set of connection ids under *)
(* which the canvas holds this RootFinder as a handler of                  *)
(* button_press_event; rf.cid is self.cid (0: the attribute is not set).   *)
(* The canvas hands out ids 1, 2, ... and answers a second mpl_connect of  *)
(* a callback it already holds with the id of the first; mpl_disconnect of *)
(* an id it does not hold does nothing.                                    *)
(***************************************************************************)
MaxCid == 3   \* most connection ids the canvas hands out

Modes == {"root_finder", "psi_finder", "click"}

othersRoot == <<lineVars, segVars, sg, cg, topoVars, lc, sg2, rg, bp>>

\* canvas.mpl_connect('button_press_event', self): the new registrations
\* and the id returned.
mpl_connect(st) ==
    IF st.handlers # {}
    THEN [handlers |-> st.handlers, nextCid |-> st.nextCid,
          cid |-> CHOOSE c \in st.handlers : TRUE]
    ELSE [handlers |-> {st.nextCid}, nextCid |-> st.nextCid + 1,
          cid |-> st.nextCid]

\* canvas.mpl_disconnect(cid)
mpl_disconnect(st, cid) == st.handlers \ {cid}

\* Lines 29-44: RootFinder(grid, active, mode)
RootFinderInit ==
    \E active \in BOOLEAN, mode \in Modes :
        LET new == [handlers |-> {}, nextCid |-> 1]
            c == mpl_connect(new)
        IN  rf = [pc |-> "run", mode |-> mode,
                  root_finding |-> (mode = "root_finder"),
                  psi_finding |-> (mode = "psi_finder"),
                  cid |-> IF active THEN c.cid ELSE 0,
                  handlers |-> IF active THEN c.handlers ELSE {},
                  nextCid |-> IF active THEN c.nextCid ELSE 1,
                  last |-> "init", handled |-> "none", exc |-> "none"]

\* Lines 86-93
toggle_root_finding ==
    /\ rf.pc = "run"
    /\ rf' = [rf EXCEPT !.root_finding = ~rf.root_finding,
                        !.last = "toggle_root_finding",
                        !.handled = "none", !.exc = "none"]
    /\ UNCHANGED othersRoot

\* Lines 100-103
connect ==
    /\ rf.pc = "run"
    /\ rf.handlers # {} \/ rf.nextCid <= MaxCid
    /\ LET c == mpl_connect(rf)
       IN  rf' = [rf EXCEPT !.cid = c.cid, !.handlers = c.handlers,
                            !.nextCid = c.nextCid,
                            !.last = "connect",
                            !.handled = "none", !.exc = "none"]
    /\ UNCHANGED othersRoot

\* Lines 95-98: reading self.cid raises AttributeError when __init__ ran
\* with active = False and connect was never called.
disconnect ==
    /\ rf.pc = "run"
    /\ rf' = IF rf.cid = 0
             THEN [rf EXCEPT !.last = "disconnect", !.handled = "none",
                             !.exc = "AttributeError"]
             ELSE [rf EXCEPT !.handlers = mpl_disconnect(rf, rf.cid),
                             !.last = "disconnect", !.handled = "none",
                             !.exc = "none"]
    /\ UNCHANGED othersRoot

\* Lines 67-84: the canvas delivers a button press to the registered
\* handler.
RootFinder_call ==
    /\ rf.pc = "run"
    /\ rf.handlers # {}
    /\ \E button \in {1, 3}, inaxes \in BOOLEAN :
          rf' = IF button = 3
                THEN [rf EXCEPT !.handlers = mpl_disconnect(rf, rf.cid),
                                !.last = "right_click", !.handled = "none",
                                !.exc = "none"]
                ELSE [rf EXCEPT
                        !.last = "click", !.exc = "none",
                        !.handled = IF ~inaxes THEN "none"
                                    ELSE IF rf.root_finding THEN "find_root"
                                    ELSE IF rf.psi_finding THEN "find_psi"
                                    ELSE "record"]
    /\ UNCHANGED othersRoot

InitRoot ==
    LineOff /\ SegOff /\ SubgridOff /\ ConcatOff /\ TopoOff /\ CacheOff
    /\ Subgrid2Off /\ RegridOff /\ BoundaryOff /\ RootFinderInit

NextRoot ==
    \/ toggle_root_finding
    \/ connect
    \/ disconnect
    \/ RootFinder_call

SpecRoot == InitRoot /\ [][NextRoot]_vars

\* What a click inside the axes does under the mode given at construction.
ModeHandling(mode) ==
    CASE mode = "root_finder" -> "find_root"
      [] mode = "psi_finder" -> "find_psi"
      [] OTHER -> "record"

\* C29: at most one of root_finding and psi_finding is true, and a click is
\* handled by the mode selected at construction or recorded as a plain
\* click.
C29_AtMostOneModeFlag ==
    rf.pc = "run" =>
        /\ ~(rf.root_finding /\ rf.psi_finding)
        /\ rf.handled \in {"none", "record", ModeHandling(rf.mode)}

\* C30: after disconnect() or a right click no handler of the RootFinder is
\* registered on the canvas, and disconnect() does not read a connection id
\* that was never set.
C30_DisconnectRemovesHandler ==
    (rf.pc = "run" /\ rf.last \in {"disconnect", "right_click"}) =>
        /\ rf.handlers = {}
        /\ rf.exc = "none"

====
